---- MODULE Spec2Model ----
(***************************************************************************)
(* log_db: an append-only record store.  A directory holds segments        *)
(* (metadata.<N> + a data file named by a uuid), the `active` link, and    *)
(* any number of engine handles, each with its own file handles, memtables *)
(* and refresh cursor.                                                     *)
(*                                                                         *)
(* Schema of the model: {id: Int, name: String}, primary key id, one       *)
(* secondary key name (the schema of tests/integration.rs without the      *)
(* unindexed data field).                                                  *)
(*                                                                         *)
(* Granularity: every engine operation is one action.  The appends of      *)
(* batch_upsert_records, delete_by_field and do_maintenance_tasks run      *)
(* under the exclusive lock of the handle's metadata file and the reads of *)
(* refresh_indexes / read_tagged_log_keys under its shared lock; what a    *)
(* handle does after unlocking touches only its own memtables.             *)
(***************************************************************************)
EXTENDS Integers, Sequences, FiniteSets, TLC

\* ---------------------------------------------------------------- bounds
NumHandles == 2
MaxKey == 2
MaxBatch == 2
MaxRows == 2
MaxSegments == 3
MaxFind == 2
\* rows appended in SpecRotation, in SpecIndexes and in SpecCompaction
MaxRotationRows == 3
MaxIndexRows == 3
MaxCompactionRows == 2
\* fields appended to the base schema, records deferred in one transaction,
\* rows appended in SpecSchema and in SpecTx
MaxExtra == 2
MaxTx == 2
MaxSchemaRows == 2
MaxTxRows == 2
\* values of a record and bytes of a String or Bytes value in SpecCodec
MaxValues == 2
MaxPayload == 2
\* rows appended in SpecLocks
MaxLockRows == 3
\* records and rows of the segments read in SpecReader
MaxReaderData == 2
MaxReaderRows == 3
\* rows appended in SpecQuery
MaxQueryRows == 2
\* rows appended in SpecWaits
MaxWaitRows == 4
\* rows appended in SpecCrash
MaxCrashRows == 3
\* config.segment_size, in metadata rows past the header
SegmentRows == 2

\* ------------------------------------------------------ program constants
METADATA_FILE_HEADER_SIZE == 24
METADATA_ROW_LENGTH == 16

Handles == 1..NumHandles
Keys == 1..MaxKey
Names == {"a", "b"}
Fields == {"id", "name"}

\* config.segment_size (bytes)
segment_size == METADATA_FILE_HEADER_SIZE + METADATA_ROW_LENGTH * SegmentRows

VARIABLES
    fs,               \* the data directory: active, metadata, inodes, datafiles
    engines,          \* engines[h]: the Engine of handle h
    overflow_checks,  \* build profile: TRUE = integer overflow panics (debug)
    live,             \* history: live[k] = the record last upserted for key k and its writer
    hist,             \* history: facts about the operations run so far
    appended,         \* number of metadata rows appended so far (bounded)
    db,               \* db[h]: the DB wrapper of handle h: its schema and open transaction
    codec,            \* a record on its way through serialize / deserialize
    locks,            \* locks[h]: the advisory file locks handle h holds
    pc                \* pc[h]: where handle h stands inside an engine operation

vars == <<fs, engines, overflow_checks, live, hist, appended, db, codec, locks, pc>>

\* the state of the layers around the engine operations taken as one step
layers == <<db, codec, locks, pc>>

\* ------------------------------------------------------------ data model
\* LogKey(segment_num, index): the source packs both in a u64 (16 + 48 bits);
\* the numeric order of the packed value is the lexicographic order below.
LogKey(segment_num, index) == [seg |-> segment_num, idx |-> index]

NoKey == [seg |-> 0, idx |-> 0]

LogKeyLess(a, b) == a.seg < b.seg \/ (a.seg = b.seg /\ a.idx < b.idx)

Records == [id : Keys, name : Names, tombstone : BOOLEAN]

NoRecord == [id |-> 0, name |-> "", tombstone |-> FALSE]

\* Ord for IndexableValue::String restricted to Names
NameRank(n) == IF n = "a" THEN 1 ELSE 2

\* s.len() of a name
NameLen(n) == 1

\* RecordValue::serialize of a value past the key fields: Null is its tag, a
\* String its tag, its length and its bytes
ValueLen(value) == IF value.tag = "Null" THEN 1 ELSE 1 + 8 + NameLen(value.v)

RECURSIVE ValuesLen(_)
ValuesLen(values) ==
    IF values = <<>> THEN 0 ELSE ValueLen(Head(values)) + ValuesLen(Tail(values))

\* the values a record holds past id and name
ExtraOf(rec) == IF "extra" \in DOMAIN rec THEN rec.extra ELSE <<>>

\* Record::serialize: tombstone byte, Int (tag + 8), String (tag + 8 + len),
\* then the values past the key fields
SerializedLen(rec) ==
    1 + (1 + 8) + (1 + 8 + NameLen(rec.name)) + ValuesLen(ExtraOf(rec))

RECURSIVE DataLen(_)
\* seek(SeekFrom::End(0)) on a data file: its length in bytes
DataLen(data) ==
    IF data = <<>> THEN 0 ELSE SerializedLen(Head(data)) + DataLen(Tail(data))

\* the record whose bytes start at byte `offset` of a data file
RecordAt(data, offset) ==
    data[CHOOSE i \in 1..Len(data) : DataLen(SubSeq(data, 1, i - 1)) = offset]

\* the headers a metadata file holds: the one it was created with and those
\* appended to it since
HeadersOf(inode) == IF "headers" \in DOMAIN inode THEN inode.headers ELSE 1

\* metadata file size in bytes
MetadataLen(inode) ==
    METADATA_FILE_HEADER_SIZE * HeadersOf(inode) + METADATA_ROW_LENGTH * Len(inode.rows)

\* the inode that path metadata.<segnum> names
MetadataInode(f, segnum) == f.inodes[f.metadata[segnum]]

\* ------------------------------------------------------------- memtables
EmptyPrimary == [k \in Keys |-> NoKey]

EmptySecondary == [n \in Names |-> {}]

\* PrimaryMemtable::set
PrimarySet(primary, pk, log_key) == [primary EXCEPT ![pk] = log_key]

\* SecondaryMemtable::set: insert the LogKey into the LogKeySet at sk
SecondarySet(secondary, sk, log_key) == [secondary EXCEPT ![sk] = @ \cup {log_key}]

\* SecondaryMemtable::remove: remove the LogKey from the set at sk (the entry
\* goes with its last element)
SecondaryRemove(secondary, sk, log_key) == [secondary EXCEPT ![sk] = @ \ {log_key}]

\* an insertion that sets the secondary memtable only
InsertSecondaryOnly(mem, log_key, record) ==
    [primary |-> mem.primary,
     secondary |-> SecondarySet(mem.secondary, record.name, log_key)]

\* Engine::insert_record_to_memtables; mem = [primary, secondary]
InsertRecordToMemtables(mem, log_key, record) ==
    [primary |-> PrimarySet(mem.primary, record.id, log_key),
     secondary |-> SecondarySet(mem.secondary, record.name, log_key)]

\* Engine::remove_record_from_memtables
RemoveRecordFromMemtables(mem, record) ==
    LET plk == mem.primary[record.id] IN
    IF plk # NoKey
    THEN [primary |-> PrimarySet(mem.primary, record.id, NoKey),
          secondary |-> SecondaryRemove(mem.secondary, record.name, plk)]
    ELSE mem

\* ----------------------------------------------------- forward log reader
\* one item read, ahead of the items read after it
PushItem(item, rest) == [status |-> rest.status, items |-> <<item>> \o rest.items]

RECURSIVE ReadRecords(_, _, _, _, _)
\* ForwardLogReader::read_record, iterated from metadata index i with the data
\* reader at byte pos: `data_offset - stream_position()` underflows when the row
\* points before pos (a panic with overflow checks, a wrapped backward seek
\* without); a read past the end of the data file makes Iterator::next panic
ReadRecords(rows, data, i, pos, oc) ==
    IF i >= Len(rows) THEN [status |-> "ok", items |-> <<>>]
    ELSE IF oc /\ rows[i + 1].offset < pos THEN [status |-> "panic", items |-> <<>>]
    ELSE IF rows[i + 1].offset + rows[i + 1].length > DataLen(data)
    THEN [status |-> "panic", items |-> <<>>]
    ELSE PushItem([index |-> i, record |-> RecordAt(data, rows[i + 1].offset)],
                  ReadRecords(rows, data, i + 1, rows[i + 1].offset + rows[i + 1].length, oc))

\* ForwardLogReader::new / new_with_index, collected: the metadata reader is
\* seeked to row `index`, the data reader starts where its file handle stands
ForwardLogReader(inode, data, index, pos, oc) == ReadRecords(inode.rows, data, index, pos, oc)

RECURSIVE ReplayItems(_, _, _)
\* the loop body of refresh_indexes over the items of one segment
ReplayItems(mem, segnum, items) ==
    IF items = <<>> THEN mem
    ELSE ReplayItems(
             IF Head(items).record.tombstone
             THEN RemoveRecordFromMemtables(mem, Head(items).record)
             ELSE InsertRecordToMemtables(mem, LogKey(segnum, Head(items).index),
                                          Head(items).record),
             segnum, Tail(items))

\* a from_index that starts again at zero when no row was read
RestartIndex(from_index, items) ==
    IF items = <<>> THEN 0 ELSE items[Len(items)].index + 1

\* refresh_indexes, from_index after one segment was read
NextIndex(from_index, items) ==
    IF items = <<>> THEN from_index ELSE items[Len(items)].index + 1

RECURSIVE RefreshSegments(_, _, _, _, _, _)
RECURSIVE RefreshSegment(_, _, _, _, _, _, _)
\* refresh_indexes, one turn of the loop over segments, given what the
\* forward reader read of segment segnum
RefreshSegment(f, oc, mem, segnum, from_index, to_segnum, read) ==
    IF read.status = "panic" THEN [status |-> "panic", mem |-> mem, next |-> NoKey]
    ELSE IF segnum = to_segnum
    THEN [status |-> "ok", mem |-> ReplayItems(mem, segnum, read.items),
          next |-> LogKey(to_segnum, NextIndex(from_index, read.items))]
    ELSE RefreshSegments(f, oc, ReplayItems(mem, segnum, read.items), segnum + 1, 0, to_segnum)

\* refresh_indexes, the loop over segments segnum..to_segnum: a metadata file
\* whose size past the header is no multiple of the row length is an error
RefreshSegments(f, oc, mem, segnum, from_index, to_segnum) ==
    IF segnum > to_segnum
    THEN [status |-> "ok", mem |-> mem, next |-> LogKey(to_segnum, from_index)]
    ELSE IF (MetadataLen(MetadataInode(f, segnum)) - METADATA_FILE_HEADER_SIZE)
                % METADATA_ROW_LENGTH # 0
    THEN [status |-> "ConsistencyError", mem |-> mem, next |-> NoKey]
    ELSE RefreshSegment(f, oc, mem, segnum, from_index, to_segnum,
             ForwardLogReader(MetadataInode(f, segnum),
                              f.datafiles[MetadataInode(f, segnum).uuid], from_index, 0, oc))

\* the memtables of an engine as one value
MemOf(e) == [primary |-> e.primary_memtable, secondary |-> e.secondary_memtables]

\* refresh_indexes, the engine once the loop is over: the memtables are
\* updated in place as the rows are read, the cursor only when the loop ends,
\* so an Err on the way leaves the memtables of the segments read so far
Refreshed(e, r) ==
    [status |-> r.status,
     engine |-> IF r.status = "ok"
                THEN [e EXCEPT !.primary_memtable = r.mem.primary,
                               !.secondary_memtables = r.mem.secondary,
                               !.refresh_next_logkey = r.next]
                ELSE IF r.status = "ConsistencyError"
                THEN [e EXCEPT !.primary_memtable = r.mem.primary,
                               !.secondary_memtables = r.mem.secondary]
                ELSE e]

\* Engine::refresh_indexes on engine e over directory f: [status, engine]
RefreshIndexes(f, oc, e) ==
    Refreshed(e, RefreshSegments(f, oc, MemOf(e), e.refresh_next_logkey.seg,
                                 e.refresh_next_logkey.idx, f.active))

\* ------------------------------------------------------------------ find
\* order of (tag, LogKey) pairs in read_tagged_log_keys: buckets by segment
\* (BTreeMap order), sort_unstable by (tag, index) within a bucket
TaggedLess(x, y) ==
    \/ x.key.seg < y.key.seg
    \/ x.key.seg = y.key.seg /\ x.tag < y.tag
    \/ x.key.seg = y.key.seg /\ x.tag = y.tag /\ x.key.idx < y.key.idx

\* a sequence without its m-th element
Without(seq, m) == SubSeq(seq, 1, m - 1) \o SubSeq(seq, m + 1, Len(seq))

\* the position of a least element of a sequence of tagged keys
LeastTagged(tagged) ==
    CHOOSE i \in 1..Len(tagged) : \A j \in 1..Len(tagged) : ~TaggedLess(tagged[j], tagged[i])

RECURSIVE SortTagged(_)
SortTagged(tagged) ==
    IF tagged = <<>> THEN <<>>
    ELSE <<tagged[LeastTagged(tagged)]>> \o SortTagged(Without(tagged, LeastTagged(tagged)))

\* one record read, ahead of the records read after it; an Err of a later
\* read is the result of the call
PushTagged(x, rest) ==
    [status |-> rest.status, out |-> IF rest.status = "ok" THEN <<x>> \o rest.out ELSE <<>>]

RECURSIVE ReadSorted(_, _)
RECURSIVE ReadRow(_, _, _, _)
\* read_tagged_log_keys, the data read of one metadata row
ReadRow(f, sorted, row, data) ==
    IF row.offset + row.length > DataLen(data) THEN [status |-> "err", out |-> <<>>]
    ELSE PushTagged([tag |-> Head(sorted).tag, record |-> RecordAt(data, row.offset)],
                    ReadSorted(f, Tail(sorted)))

\* read_tagged_log_keys, the read loop: a row or data bytes past the end of
\* the file make read_exact fail and the call return Err
ReadSorted(f, sorted) ==
    IF sorted = <<>> THEN [status |-> "ok", out |-> <<>>]
    ELSE IF Head(sorted).key.idx >= Len(MetadataInode(f, Head(sorted).key.seg).rows)
    THEN [status |-> "err", out |-> <<>>]
    ELSE ReadRow(f, sorted,
                 MetadataInode(f, Head(sorted).key.seg).rows[Head(sorted).key.idx + 1],
                 f.datafiles[MetadataInode(f, Head(sorted).key.seg).uuid])

\* Engine::read_tagged_log_keys
ReadTaggedLogKeys(f, tagged) == ReadSorted(f, SortTagged(tagged))

RECURSIVE SetToSeq(_)
\* the elements of a LogKeySet in the order its iterator yields them
SetToSeq(S) ==
    IF S = {} THEN <<>>
    ELSE <<CHOOSE y \in S : TRUE>> \o SetToSeq(S \ {CHOOSE y \in S : TRUE})

\* the log keys a memtable holds for one query value (PrimaryMemtable::get,
\* SecondaryMemtable::find_by)
LookupLogKeys(e, field, value) ==
    IF field = "id"
    THEN IF e.primary_memtable[value] # NoKey THEN <<e.primary_memtable[value]>> ELSE <<>>
    ELSE SetToSeq(e.secondary_memtables[value])

\* batch_find_by_records: the keys of one batch with its tag
Tagged(keys, tag) == [i \in 1..Len(keys) |-> [tag |-> tag, key |-> keys[i]]]

RECURSIVE TagBatches(_, _, _, _)
\* the tagging loop of batch_find_by_records
TagBatches(e, field, values, tag) ==
    IF values = <<>> THEN <<>>
    ELSE Tagged(LookupLogKeys(e, field, Head(values)), tag)
         \o TagBatches(e, field, Tail(values), tag + 1)

\* batch_find_by_records, its result given what read_tagged_log_keys returned
Found(engine, read) == [status |-> read.status, engine |-> engine, out |-> read.out]

\* batch_find_by_records after refresh_indexes returned r
FindRefreshed(f, field, values, r) ==
    IF r.status # "ok" THEN [status |-> r.status, engine |-> r.engine, out |-> <<>>]
    ELSE Found(r.engine, ReadTaggedLogKeys(f, TagBatches(r.engine, field, values, 0)))

\* Engine::batch_find_by_records with ReadConsistency::Strong:
\* [status, engine, out]
BatchFindByRecords(f, oc, e, field, values) ==
    FindRefreshed(f, field, values, RefreshIndexes(f, oc, e))

\* ----------------------------------------------------------------- range
Bounds(field) ==
    [kind : {"Included", "Excluded"}, value : IF field = "id" THEN Keys ELSE Names]
    \cup {[kind |-> "Unbounded", value |-> 0]}

\* Ord of IndexableValue within one field
Rank(field, value) == IF field = "id" THEN value ELSE NameRank(value)

\* RangeBounds::contains for the (start, end) pair
InBounds(field, value, start, end) ==
    /\ CASE start.kind = "Included" -> Rank(field, start.value) <= Rank(field, value)
         [] start.kind = "Excluded" -> Rank(field, start.value) < Rank(field, value)
         [] OTHER -> TRUE
    /\ CASE end.kind = "Included" -> Rank(field, value) <= Rank(field, end.value)
         [] end.kind = "Excluded" -> Rank(field, value) < Rank(field, end.value)
         [] OTHER -> TRUE

\* the least value of a set of values of one field
Least(field, todo) == CHOOSE x \in todo : \A y \in todo : Rank(field, x) <= Rank(field, y)

RECURSIVE RangeLogKeys(_, _, _, _, _)
\* PrimaryMemtable::range / SecondaryMemtable::range over the values still to
\* visit, in order: the log keys of the entries within the bounds
RangeLogKeys(e, field, todo, start, end) ==
    IF todo = {} THEN <<>>
    ELSE (IF InBounds(field, Least(field, todo), start, end)
          THEN LookupLogKeys(e, field, Least(field, todo)) ELSE <<>>)
         \o RangeLogKeys(e, field, todo \ {Least(field, todo)}, start, end)

\* range_by_records, its result given what read_tagged_log_keys returned
RangeFound(engine, read) ==
    [status |-> read.status, engine |-> engine,
     out |-> [i \in 1..Len(read.out) |-> read.out[i].record]]

\* range_by_records after refresh_indexes returned r
RangeRefreshed(f, field, start, end, r) ==
    IF r.status # "ok" THEN [status |-> r.status, engine |-> r.engine, out |-> <<>>]
    ELSE RangeFound(r.engine,
             ReadTaggedLogKeys(f,
                 Tagged(RangeLogKeys(r.engine, field,
                                     IF field = "id" THEN Keys ELSE Names, start, end), 0)))

\* Engine::range_by_records with ReadConsistency::Strong: [status, engine, out]
RangeByRecords(f, oc, e, field, start, end) ==
    RangeRefreshed(f, field, start, end, RefreshIndexes(f, oc, e))

\* ---------------------------------------------------------------- upsert
\* Engine::ensure_metadata_file_is_active: [correct, engine]; a handle whose
\* metadata file is not the one `active` names reopens the active metadata
\* file, and the data file named by the header of the file it held
EnsureMetadataFileIsActive(f, e) ==
    IF e.active_metadata_file = f.metadata[f.active] THEN [correct |-> TRUE, engine |-> e]
    ELSE [correct |-> FALSE,
          engine |-> [e EXCEPT !.active_metadata_file = f.metadata[f.active],
                               !.active_data_file = f.inodes[e.active_metadata_file].uuid]]

\* the metadata rows batch_upsert_records builds for a batch: the end of the
\* data file is read before any record of the batch is written
BatchRows(recs, record_offset) ==
    [i \in 1..Len(recs) |-> [offset |-> record_offset, length |-> SerializedLen(recs[i])]]

\* the log keys batch_upsert_records gives the records of a batch: the end of
\* the metadata file is read before any row of the batch is written
BatchLogKeys(recs, segment_num, metadata_index) ==
    [i \in 1..Len(recs) |-> LogKey(segment_num, metadata_index)]

RECURSIVE InsertPending(_, _, _)
\* the pending_memtable_insertions loop
InsertPending(mem, keys, recs) ==
    IF recs = <<>> THEN mem
    ELSE InsertPending(InsertRecordToMemtables(mem, Head(keys), Head(recs)), Tail(keys), Tail(recs))

\* an engine with its memtables replaced
WithMemtables(e, mem) ==
    [e EXCEPT !.primary_memtable = mem.primary, !.secondary_memtables = mem.secondary]

\* batch_upsert_records on the files the handle holds after the active check
UpsertActive(f, e, recs) ==
    [fs |-> [f EXCEPT !.datafiles[e.active_data_file] = @ \o recs,
                      !.inodes[e.active_metadata_file].rows =
                          @ \o BatchRows(recs, DataLen(f.datafiles[e.active_data_file]))],
     engine |-> WithMemtables(e,
                    InsertPending(MemOf(e),
                        BatchLogKeys(recs, f.active,
                            (MetadataLen(f.inodes[e.active_metadata_file])
                                 - METADATA_FILE_HEADER_SIZE) \div METADATA_ROW_LENGTH),
                        recs))]

\* Engine::batch_upsert_records: [fs, engine]; when the active check reopened
\* the files the call starts again and the second check passes, so the write
\* happens on the reopened files. ensure_active_metadata_is_valid only looks at
\* the metadata file handle; every header of the model is valid, so it passes
BatchUpsertRecords(f, e, recs) ==
    UpsertActive(f, EnsureMetadataFileIsActive(f, e).engine, recs)

\* ---------------------------------------------------------------- delete
\* delete_by_field: the records found, marked as tombstones
Tombstones(out) == [i \in 1..Len(out) |-> [out[i].record EXCEPT !.tombstone = TRUE]]

\* delete_by_field, one append: the record at the end of the data file the
\* handle holds, its row at the end of the metadata file the handle holds
AppendRecord(f, e, record) ==
    [f EXCEPT !.datafiles[e.active_data_file] = Append(@, record),
              !.inodes[e.active_metadata_file].rows =
                  Append(@, [offset |-> DataLen(f.datafiles[e.active_data_file]),
                             length |-> SerializedLen(record)])]

RECURSIVE AppendTombstones(_, _, _)
\* the loop of delete_by_field: append a tombstone, then remove it from the
\* memtables
AppendTombstones(f, e, recs) ==
    IF recs = <<>> THEN [fs |-> f, engine |-> e]
    ELSE AppendTombstones(AppendRecord(f, e, Head(recs)),
                          WithMemtables(e, RemoveRecordFromMemtables(MemOf(e), Head(recs))),
                          Tail(recs))

\* delete_by_field, its result once the tombstones are appended
Deleted(recs, done) ==
    [status |-> "ok", fs |-> done.fs, engine |-> done.engine, out |-> recs]

\* delete_by_field after batch_find_by_records returned
DeleteFound(f, found) ==
    IF found.status # "ok"
    THEN [status |-> found.status, fs |-> f, engine |-> found.engine, out |-> <<>>]
    ELSE Deleted(Tombstones(found.out), AppendTombstones(f, found.engine, Tombstones(found.out)))

\* Engine::delete_by_field: [status, fs, engine, out]
DeleteByField(f, oc, e, field, value) ==
    DeleteFound(f, BatchFindByRecords(f, oc, e, field, <<value>>))

\* ----------------------------------------------------------- maintenance
\* rotate_and_compact, pk_to_item_map: the last record read for each key
LastItem(items, pk) ==
    items[CHOOSE i \in 1..Len(items) :
              /\ items[i].record.id = pk
              /\ \A j \in (i + 1)..Len(items) : items[j].record.id # pk].record

RECURSIVE CompactedData(_, _)
\* rotate_and_compact, the new data file: one record per key, in key order
CompactedData(items, pks) ==
    IF pks = {} THEN <<>>
    ELSE <<LastItem(items, Least("id", pks))>> \o CompactedData(items, pks \ {Least("id", pks)})

\* rotate_and_compact, pk_to_data_map: where the new data file holds a key
CompactedRow(data, pk) ==
    [offset |-> DataLen(SubSeq(data, 1, (CHOOSE j \in 1..Len(data) : data[j].id = pk) - 1)),
     length |-> SerializedLen(data[CHOOSE j \in 1..Len(data) : data[j].id = pk])]

\* a compaction that writes one metadata row per key kept
CompactedRowsPerKey(items, data) ==
    [i \in 1..Len(data) |-> CompactedRow(data, data[i].id)]

\* rotate_and_compact, the rewritten metadata rows: one row per record read,
\* pointing at its key's place in the new data file
CompactedRows(items, data) ==
    [i \in 1..Len(items) |-> CompactedRow(data, items[i].record.id)]

\* rotate_and_compact up to the rename: the new data file, and the compacted
\* rows renamed over metadata.<active_num>; the file renamed into place is
\* marked as the product of a compaction (history)
Renamed(f, active_num, items, new_data) ==
    [f EXCEPT !.metadata[active_num] = Len(f.inodes) + 1,
              !.inodes = Append(@, [uuid |-> Len(f.datafiles) + 1,
                                    rows |-> CompactedRows(items, new_data),
                                    compacted |-> TRUE]),
              !.datafiles = Append(@, new_data)]

\* a metadata file with one more header appended to it
WithHeader(inode) ==
    [x \in DOMAIN inode \cup {"headers"} |->
         IF x = "headers" THEN HeadersOf(inode) + 1 ELSE inode[x]]

\* rotate_and_compact after the rename: metadata.<active_num + 1> is opened in
\* append mode, created if it is not there, and a header naming the new data
\* file is written to it; `active` is set to it
NewSegment(f, active_num, uuid) ==
    IF active_num + 1 <= Len(f.metadata)
    THEN [f EXCEPT !.inodes[f.metadata[active_num + 1]] =
                       IF HeadersOf(@) = 0 THEN [uuid |-> uuid, rows |-> <<>>]
                       ELSE WithHeader(@),
                   !.active = active_num + 1]
    ELSE [f EXCEPT !.metadata = Append(@, Len(f.inodes) + 1),
                   !.inodes = Append(@, [uuid |-> uuid, rows |-> <<>>]),
                   !.active = active_num + 1]

\* rotate_and_compact, the end: the handle reopens metadata.<active_num + 1>
\* and the new data file
Reopened(f, e, active_num, uuid) ==
    [status |-> "ok", fs |-> f,
     engine |-> [e EXCEPT !.active_metadata_file = f.metadata[active_num + 1],
                          !.active_data_file = uuid]]

\* rotate_and_compact, the renames and the new segment: the compacted rows
\* replace metadata.<active>, metadata.<active + 1> names the same new data
\* file, `active` moves on and the handle reopens both
Rotated(f, e, items, new_data) ==
    Reopened(NewSegment(Renamed(f, f.active, items, new_data), f.active,
                        Len(f.datafiles) + 1),
             e, f.active, Len(f.datafiles) + 1)

\* rotate_and_compact after the forward reader read the handle's segment
Compact(f, e, read) ==
    IF read.status # "ok" THEN [status |-> "panic", fs |-> f, engine |-> e]
    ELSE Rotated(f, e, read.items,
                 CompactedData(read.items,
                               {read.items[i].record.id : i \in 1..Len(read.items)}))

\* Engine::rotate_and_compact: [status, fs, engine]; the reader works on a
\* clone of the data file handle, which stands at the end of the file
RotateAndCompact(f, oc, e) ==
    Compact(f, e,
            ForwardLogReader(f.inodes[e.active_metadata_file], f.datafiles[e.active_data_file],
                             0, DataLen(f.datafiles[e.active_data_file]), oc))

\* Engine::do_maintenance_tasks: [status, fs, engine]; the size measured is
\* that of the metadata file the handle holds, and the result of
\* ensure_active_metadata_is_valid is not looked at
DoMaintenanceTasks(f, oc, e) ==
    IF MetadataLen(f.inodes[e.active_metadata_file]) >= segment_size
    THEN RotateAndCompact(f, oc, e)
    ELSE [status |-> "ok", fs |-> f, engine |-> e]

\* ---------------------------------------------------------------- state
ClosedEngine ==
    [open |-> FALSE, active_metadata_file |-> 0, active_data_file |-> 0,
     primary_memtable |-> EmptyPrimary, secondary_memtables |-> EmptySecondary,
     refresh_next_logkey |-> NoKey]

EmptyDir == [active |-> 0, metadata |-> <<>>, inodes |-> <<>>, datafiles |-> <<>>]

NoLive == [record |-> NoRecord, by |-> 0]

\* a handle without a DB wrapper: no schema, no transaction
NoDB == [schema |-> <<>>, in_tx |-> FALSE, tx |-> <<>>, last |-> "none", rolled |-> <<>>]

\* no record on its way through the codec
NoCodec == [phase |-> "none"]

\* a handle outside every engine operation
Idle == [at |-> "idle"]

Init ==
    /\ fs = EmptyDir
    /\ engines = [h \in Handles |-> ClosedEngine]
    /\ overflow_checks \in BOOLEAN
    /\ live = [k \in Keys |-> NoLive]
    /\ hist = {}
    /\ appended = 0
    /\ db = [h \in Handles |-> NoDB]
    /\ codec = NoCodec
    /\ locks = [h \in Handles |-> {}]
    /\ pc = [h \in Handles |-> Idle]

\* Engine::initialize, the bootstrap under the init lock: create segment 1 and
\* point `active` at it unless `active` exists
Bootstrap(f) ==
    IF f.active # 0 THEN f
    ELSE [active |-> 1, metadata |-> <<1>>,
          inodes |-> <<[uuid |-> 1, rows |-> <<>>]>>, datafiles |-> << <<>> >>]

\* Engine::initialize after the bootstrap: open the active files, then
\* refresh_indexes from LogKey(1, 0): [status, engine]
OpenEngine(f, oc) ==
    RefreshIndexes(f, oc,
        [open |-> TRUE, active_metadata_file |-> f.metadata[f.active],
         active_data_file |-> f.inodes[f.metadata[f.active]].uuid,
         primary_memtable |-> EmptyPrimary, secondary_memtables |-> EmptySecondary,
         refresh_next_logkey |-> LogKey(1, 0)])

\* the handle after an operation: a panic unwinds the thread that owns the
\* handle, which is dropped
After(status, engine) == IF status = "panic" THEN ClosedEngine ELSE engine

\* handle h keeps the engine of result r; the directory is untouched
Returned(h, r) ==
    /\ engines' = [engines EXCEPT ![h] = After(r.status, r.engine)]
    /\ UNCHANGED fs

\* handle h keeps the engine of result r, the directory becomes r.fs
Written(h, r) ==
    /\ engines' = [engines EXCEPT ![h] = After(r.status, r.engine)]
    /\ fs' = r.fs

\* Engine::initialize, given what the first refresh_indexes returned: there
\* is an engine only when it returned Ok
Opened(h, f, r) ==
    /\ engines' = [engines EXCEPT ![h] = IF r.status = "ok" THEN r.engine ELSE ClosedEngine]
    /\ fs' = f

\* DB::initialize
Initialize(h) ==
    /\ ~engines[h].open
    /\ Opened(h, Bootstrap(fs), OpenEngine(Bootstrap(fs), overflow_checks))
    /\ UNCHANGED <<overflow_checks, live, hist, appended, layers>>

\* the handle is dropped
Close(h) ==
    /\ engines[h].open
    /\ engines' = [engines EXCEPT ![h] = ClosedEngine]
    /\ UNCHANGED <<fs, overflow_checks, live, hist, appended, layers>>

FieldValues(field) == IF field = "id" THEN Keys ELSE Names

\* sequences of 1..n query values
ValueSeqs(field, n) == UNION {[1..m -> FieldValues(field)] : m \in 1..n}

\* DB::batch_find_by / find_by / get
Find(h, field, values) ==
    /\ engines[h].open
    /\ Returned(h, BatchFindByRecords(fs, overflow_checks, engines[h], field, values))
    /\ UNCHANGED <<overflow_checks, live, hist, appended, layers>>

\* DB::range_by
Range(h, field, start, end) ==
    /\ engines[h].open
    /\ Returned(h, RangeByRecords(fs, overflow_checks, engines[h], field, start, end))
    /\ UNCHANGED <<overflow_checks, live, hist, appended, layers>>

LiveRecords == [id : Keys, name : Names, tombstone : {FALSE}]

Batches == UNION {[1..m -> LiveRecords] : m \in 1..MaxBatch}

RECURSIVE LiveAfter(_, _, _)
\* history: the last record upserted per key, in write order, and its writer
LiveAfter(l, h, recs) ==
    IF recs = <<>> THEN l
    ELSE LiveAfter([l EXCEPT ![Head(recs).id] = [record |-> Head(recs), by |-> h]],
                   h, Tail(recs))

\* history: a key of the batch was upserted before by another handle
SharesKey(l, h, recs) == \E i \in 1..Len(recs) : l[recs[i].id].by \notin {0, h}

\* handle h and the directory after batch_upsert_records returned r
Upserted(h, r) ==
    /\ engines' = [engines EXCEPT ![h] = r.engine]
    /\ fs' = r.fs

\* DB::upsert / Engine::batch_upsert_records
BatchUpsert(h, recs, max_rows) ==
    /\ engines[h].open
    /\ appended + Len(recs) <= max_rows
    /\ Upserted(h, BatchUpsertRecords(fs, engines[h], recs))
    /\ live' = LiveAfter(live, h, recs)
    /\ hist' = hist \cup (IF SharesKey(live, h, recs) THEN {"shared"} ELSE {})
    /\ appended' = appended + Len(recs)
    /\ UNCHANGED <<overflow_checks, layers>>

\* history: the keys whose last upserted record has `value` in `field`
Matching(l, field, value) ==
    {k \in Keys : /\ l[k] # NoLive
                  /\ (IF field = "id" THEN k ELSE l[k].record.name) = value}

\* history: the keys of l without those delete_by(field, value) deletes
LiveWithout(l, field, value) ==
    [k \in Keys |-> IF k \in Matching(l, field, value) THEN NoLive ELSE l[k]]

\* DB::delete_by / delete, given what Engine::delete_by_field returned
DeleteDone(h, field, value, max_rows, r) ==
    /\ appended + Len(r.out) <= max_rows
    /\ Written(h, r)
    /\ appended' = appended + Len(r.out)
    /\ live' = IF r.status = "ok" THEN LiveWithout(live, field, value) ELSE live

\* DB::delete_by / delete
DeleteBy(h, field, value, max_rows) ==
    /\ engines[h].open
    /\ DeleteDone(h, field, value, max_rows,
                  DeleteByField(fs, overflow_checks, engines[h], field, value))
    /\ hist' = hist \cup {"delete"}
    /\ UNCHANGED <<overflow_checks, layers>>

\* DB::do_maintenance_tasks
DoMaintenance(h) ==
    /\ engines[h].open
    /\ fs.active < MaxSegments
    /\ Written(h, DoMaintenanceTasks(fs, overflow_checks, engines[h]))
    /\ hist' = hist \cup {"maintenance"}
    /\ UNCHANGED <<overflow_checks, live, appended, layers>>

\* the bound shapes lo..hi, lo..=hi, ..=hi, lo.. and .. with lo < hi
RangeInputs(field) ==
    {b \in Bounds(field) \X Bounds(field) :
         /\ b[1].kind # "Excluded"
         /\ (b[1].kind = "Included" /\ b[2].kind # "Unbounded")
                => Rank(field, b[1].value) < Rank(field, b[2].value)}

\* the records the handles of Spec and SpecRotation write: the name plays no
\* part there
WriterBatches == {b \in Batches : \A i \in 1..Len(b) : b[i].name = "a"}

\* any number of handles on one directory, batches of up to MaxBatch records
Next ==
    \/ \E h \in Handles : Initialize(h)
    \/ \E h \in Handles : Close(h)
    \/ \E h \in Handles, recs \in WriterBatches : BatchUpsert(h, recs, MaxRows)
    \/ \E h \in Handles, field \in Fields : \E value \in FieldValues(field) :
           Find(h, field, <<value>>)
    \/ \E h \in Handles, field \in Fields : \E b \in RangeInputs(field) :
           Range(h, field, b[1], b[2])
    \/ \E h \in Handles, field \in Fields : \E value \in FieldValues(field) :
           DeleteBy(h, field, value, MaxRows)
    \/ \E h \in Handles : DoMaintenance(h)

Spec == Init /\ [][Next]_vars

\* long-lived handles that upsert single records, poll by primary key and run
\* maintenance (tests/integration.rs, test_one_writer_and_multiple_reading_threads)
NextRotation ==
    \/ \E h \in Handles : Initialize(h)
    \/ \E h \in Handles, recs \in WriterBatches :
           Len(recs) = 1 /\ BatchUpsert(h, recs, MaxRotationRows)
    \/ \E h \in Handles, k \in Keys : Find(h, "id", <<k>>)
    \/ \E h \in Handles : DoMaintenance(h)

SpecRotation == Init /\ [][NextRotation]_vars

\* one handle, single-record upserts of every record
NextIndexes ==
    \/ Initialize(1)
    \/ Close(1)
    \/ \E rec \in LiveRecords : BatchUpsert(1, <<rec>>, MaxIndexRows)
    \/ \E field \in Fields : \E values \in ValueSeqs(field, MaxFind) : Find(1, field, values)
    \/ \E field \in Fields : \E b \in RangeInputs(field) : Range(1, field, b[1], b[2])
    \/ \E field \in Fields : \E value \in FieldValues(field) :
           DeleteBy(1, field, value, MaxIndexRows)
    \/ DoMaintenance(1)

SpecIndexes == Init /\ [][NextIndexes]_vars

\* handles that upsert single records and run maintenance, never reading
\* (tests/integration.rs, test_log_is_rotated_when_capacity_reached)
NextCompaction ==
    \/ \E h \in Handles : Initialize(h)
    \/ \E h \in Handles, recs \in WriterBatches :
           Len(recs) = 1 /\ BatchUpsert(h, recs, MaxCompactionRows)
    \/ \E h \in Handles : DoMaintenance(h)

SpecCompaction == Init /\ [][NextCompaction]_vars

\* --------------------------------------------------- crash during rotation
\* the statements of rotate_and_compact between the rename and the
\* re-pointing of `active`, after each of which the process may stop
CrashPoints == {"renamed", "created", "header"}

\* metadata.<active_num + 1> opened in append mode with create(true): an empty
\* file unless the path exists
CreatedEmpty(f, active_num) ==
    IF active_num + 1 <= Len(f.metadata) THEN f
    ELSE [f EXCEPT !.metadata = Append(@, Len(f.inodes) + 1),
                   !.inodes = Append(@, [uuid |-> 0, rows |-> <<>>, headers |-> 0])]

\* the directory a rotate_and_compact leaves that stops at `point`, given the
\* directory after its rename: `active` still names segment active_num
StoppedAt(point, renamed, active_num, uuid) ==
    IF point = "renamed" THEN renamed
    ELSE IF point = "created" THEN CreatedEmpty(renamed, active_num)
    ELSE [NewSegment(renamed, active_num, uuid) EXCEPT !.active = active_num]

\* rotate_and_compact of handle h stops at `point`, given what the forward
\* reader read: the process is gone and its handle with it
Stopped(h, point, read) ==
    /\ read.status = "ok"
    /\ fs' = StoppedAt(point,
                       Renamed(fs, fs.active, read.items,
                               CompactedData(read.items,
                                   {read.items[i].record.id : i \in 1..Len(read.items)})),
                       fs.active, Len(fs.datafiles) + 1)
    /\ engines' = [engines EXCEPT ![h] = ClosedEngine]

\* do_maintenance_tasks at the threshold, the process stops inside
\* rotate_and_compact after the rename and before set_active_segment
CrashInRotation(h, point) ==
    /\ engines[h].open
    /\ "crashed" \notin hist
    /\ fs.active < MaxSegments
    /\ MetadataLen(fs.inodes[engines[h].active_metadata_file]) >= segment_size
    /\ Stopped(h, point,
               ForwardLogReader(fs.inodes[engines[h].active_metadata_file],
                                fs.datafiles[engines[h].active_data_file], 0,
                                DataLen(fs.datafiles[engines[h].active_data_file]),
                                overflow_checks))
    /\ hist' = hist \cup {"crashed"}
    /\ UNCHANGED <<overflow_checks, live, appended, layers>>

\* one process that writes single records, reads, runs maintenance, may stop
\* once inside a rotation, and is started again
NextCrash ==
    \/ Initialize(1)
    \/ \E rec \in LiveRecords : rec.name = "a" /\ BatchUpsert(1, <<rec>>, MaxCrashRows)
    \/ \E k \in Keys : Find(1, "id", <<k>>)
    \/ DoMaintenance(1)
    \/ \E point \in CrashPoints : CrashInRotation(1, point)

SpecCrash == Init /\ [][NextCrash]_vars

\* ------------------------------------------------------------ DB wrapper
\* a schema is a sequence of fields; the first two are the primary key id and
\* the secondary key name
SchemaField(type, nullable) == [type |-> type, nullable |-> nullable]

BaseSchema == <<SchemaField("Int", FALSE), SchemaField("String", FALSE)>>

\* the fields a later version of the record type appends
ExtraFields == {SchemaField("String", nullable) : nullable \in BOOLEAN}

Extensions(n) == UNION {[1..m -> ExtraFields] : m \in 0..n}

Schemas == {BaseSchema \o ext : ext \in Extensions(MaxExtra)}

Null == [tag |-> "Null", v |-> 0]

IntValue(k) == [tag |-> "Int", v |-> k]

StringValue(n) == [tag |-> "String", v |-> n]

Values == {Null} \cup {IntValue(k) : k \in Keys} \cup {StringValue(n) : n \in Names}

\* what a caller may hand to upsert: any values, in any number
UserRecords == UNION {[1..m -> Values] : m \in 1..(Len(BaseSchema) + MaxExtra)}

\* type_check: Null fits a nullable field, any other value a field of its type
TypeCheck(value, field) ==
    IF value.tag = "Null" THEN field.nullable ELSE value.tag = field.type

\* a validation that lets Null through in every field past the key fields
ValidateTypes(schema, values) ==
    /\ Len(values) = Len(schema)
    /\ \A i \in 1..Len(values) :
           \/ values[i].tag = schema[i].type
           \/ values[i].tag = "Null" /\ (schema[i].nullable \/ i > 2)

\* the validation of upsert: one value per field, each of the field's type
ValidateRecord(schema, values) ==
    /\ Len(values) = Len(schema)
    /\ \A i \in 1..Len(values) : TypeCheck(values[i], schema[i])

\* the engine record of validated values
IntoRecord(values) ==
    [id |-> values[1].v, name |-> values[2].v, tombstone |-> FALSE,
     extra |-> SubSeq(values, 3, Len(values))]

\* the number of values of a stored record
NumValues(rec) == Len(BaseSchema) + Len(ExtraOf(rec))

\* the i-th value of a stored record
ValueAt(rec, i) ==
    IF i = 1 THEN IntValue(rec.id)
    ELSE IF i = 2 THEN StringValue(rec.name)
    ELSE ExtraOf(rec)[i - Len(BaseSchema)]

\* the first row of segment 1 names a whole record of its data file
FirstRecordReadable(f) ==
    LET inode == MetadataInode(f, 1) IN
    \E i \in 1..Len(f.datafiles[inode.uuid]) :
        DataLen(SubSeq(f.datafiles[inode.uuid], 1, i - 1)) = inode.rows[1].offset

\* the first record of segment 1
FirstRecord(f) ==
    RecordAt(f.datafiles[MetadataInode(f, 1).uuid], MetadataInode(f, 1).rows[1].offset)

\* the schema check of open against a stored record: the record holds no more
\* values than the schema has fields, every value fits its field, and the
\* fields past the record's values are nullable
SchemaFits(schema, rec) ==
    /\ NumValues(rec) <= Len(schema)
    /\ \A i \in 1..Len(schema) :
           IF i <= NumValues(rec) THEN TypeCheck(ValueAt(rec, i), schema[i])
           ELSE schema[i].nullable

\* the schema check of open: replay segment 1 from index 0 up to its first record
SchemaValidOnOpen(f, schema) ==
    \/ MetadataInode(f, 1).rows = <<>>
    \/ FirstRecordReadable(f) /\ SchemaFits(schema, FirstRecord(f))

\* DB::initialize after the bootstrap: [status, engine]
DBOpen(f, oc, schema) ==
    IF SchemaValidOnOpen(f, schema) THEN OpenEngine(f, oc)
    ELSE [status |-> "ValidationError", engine |-> ClosedEngine]

\* the wrapper of a handle opened with a schema
OpenDB(schema) == [NoDB EXCEPT !.schema = schema, !.last = "open"]

\* DB::initialize, given what the open returned
DBOpened(h, f, schema, r) ==
    /\ fs' = f
    /\ engines' = [engines EXCEPT ![h] = IF r.status = "ok" THEN r.engine ELSE ClosedEngine]
    /\ db' = [db EXCEPT ![h] = IF r.status = "ok" THEN OpenDB(schema) ELSE NoDB]

\* DB::initialize with a schema
DBInitialize(h, schema) ==
    /\ ~engines[h].open
    /\ DBOpened(h, Bootstrap(fs), schema, DBOpen(Bootstrap(fs), overflow_checks, schema))
    /\ UNCHANGED <<overflow_checks, live, hist, appended, codec, locks, pc>>

\* the DB is dropped, and its open transaction with it
DBClose(h) ==
    /\ engines[h].open
    /\ engines' = [engines EXCEPT ![h] = ClosedEngine]
    /\ db' = [db EXCEPT ![h] = NoDB]
    /\ UNCHANGED <<fs, overflow_checks, live, hist, appended, codec, locks, pc>>

\* the result of an upsert that wrote r = [fs, engine] and left the wrapper d
Wrote(r, d) == [status |-> "ok", fs |-> r.fs, engine |-> r.engine, db |-> d]

\* DB::upsert of values that pass the validation, written through even inside
\* a transaction
UpsertThrough(f, e, d, record) ==
    Wrote(BatchUpsertRecords(f, e, <<record>>),
          [d EXCEPT !.last = IF d.in_tx THEN "deferred" ELSE "upsert"])

\* DB::upsert of values that pass the validation: deferred inside a
\* transaction, one batch_upsert_records of one record outside
UpsertValid(f, e, d, record) ==
    IF d.in_tx
    THEN [status |-> "ok", fs |-> f, engine |-> e,
          db |-> [d EXCEPT !.tx = Append(@, record), !.last = "deferred"]]
    ELSE Wrote(BatchUpsertRecords(f, e, <<record>>), [d EXCEPT !.last = "upsert"])

\* DB::upsert: [status, fs, engine, db]
DBUpsertRecord(f, e, d, values) ==
    IF ~ValidateRecord(d.schema, values)
    THEN [status |-> "ValidationError", fs |-> f, engine |-> e,
          db |-> [d EXCEPT !.last = "rejected"]]
    ELSE UpsertValid(f, e, d, IntoRecord(values))

\* DB::upsert, given what it returned
DBUpserted(h, max_rows, r) ==
    /\ fs' = r.fs
    /\ engines' = [engines EXCEPT ![h] = r.engine]
    /\ db' = [db EXCEPT ![h] = r.db]
    /\ LET written == IF r.db.last = "upsert" THEN 1 ELSE 0 IN
       /\ appended + written <= max_rows
       /\ appended' = appended + written

\* DB::upsert
DBUpsert(h, values, max_rows) ==
    /\ engines[h].open
    /\ db[h].schema # <<>>
    /\ Len(db[h].tx) < MaxTx
    /\ DBUpserted(h, max_rows, DBUpsertRecord(fs, engines[h], db[h], values))
    /\ live' = IF ValidateRecord(db[h].schema, values) /\ ~db[h].in_tx
               THEN LiveAfter(live, h, <<IntoRecord(values)>>) ELSE live
    /\ hist' = hist \cup (IF /\ ValidateRecord(db[h].schema, values)
                             /\ ~db[h].in_tx
                             /\ SharesKey(live, h, <<IntoRecord(values)>>)
                          THEN {"shared"} ELSE {})
    /\ UNCHANGED <<overflow_checks, codec, locks, pc>>

\* DB::tx_begin
TxBegin(h) ==
    /\ engines[h].open
    /\ db[h].schema # <<>>
    /\ ~db[h].in_tx
    /\ db' = [db EXCEPT ![h] = [@ EXCEPT !.in_tx = TRUE, !.tx = <<>>, !.last = "begin",
                                         !.rolled = <<>>]]
    /\ UNCHANGED <<fs, engines, overflow_checks, live, hist, appended, codec, locks, pc>>

\* DB::tx_commit: the deferred records go to the engine as one batch
TxCommitRecords(f, e, d) ==
    IF d.tx = <<>> THEN [fs |-> f, engine |-> e] ELSE BatchUpsertRecords(f, e, d.tx)

\* DB::tx_commit, given what the batch upsert returned
TxCommitted(h, r) ==
    /\ fs' = r.fs
    /\ engines' = [engines EXCEPT ![h] = r.engine]

\* DB::tx_commit
TxCommit(h, max_rows) ==
    /\ engines[h].open
    /\ db[h].in_tx
    /\ appended + Len(db[h].tx) <= max_rows
    /\ TxCommitted(h, TxCommitRecords(fs, engines[h], db[h]))
    /\ db' = [db EXCEPT ![h] = [@ EXCEPT !.in_tx = FALSE, !.tx = <<>>, !.last = "commit"]]
    /\ live' = LiveAfter(live, h, db[h].tx)
    /\ hist' = hist \cup (IF SharesKey(live, h, db[h].tx) THEN {"shared"} ELSE {})
    /\ appended' = appended + Len(db[h].tx)
    /\ UNCHANGED <<overflow_checks, codec, locks, pc>>

\* DB::tx_rollback: the deferred records are dropped
TxRollback(h) ==
    /\ engines[h].open
    /\ db[h].in_tx
    /\ db' = [db EXCEPT ![h] = [@ EXCEPT !.in_tx = FALSE, !.tx = <<>>, !.last = "rollback",
                                         !.rolled = db[h].tx]]
    /\ UNCHANGED <<fs, engines, overflow_checks, live, hist, appended, codec, locks, pc>>

\* the values the callers of SpecSchema upsert: every id, one name, and past
\* the key fields Null or one string; and two values that no schema accepts
SchemaInputs ==
    {v \in UserRecords :
         \/ /\ Len(v) >= Len(BaseSchema)
            /\ v[1].tag = "Int" /\ v[2] = StringValue("a")
            /\ \A i \in (Len(BaseSchema) + 1)..Len(v) : v[i] \in {Null, StringValue("a")}
         \/ v \in {<<IntValue(1)>>, <<IntValue(1), Null>>}}

\* one handle that is opened, closed and opened again with the schemas of
\* later versions (tests/integration.rs, test_add_nullable_field)
NextSchema ==
    \/ \E schema \in Schemas : DBInitialize(1, schema)
    \/ DBClose(1)
    \/ \E values \in SchemaInputs : DBUpsert(1, values, MaxSchemaRows)
    \/ \E k \in Keys : Find(1, "id", <<k>>)
    \/ DoMaintenance(1)

SpecSchema == Init /\ [][NextSchema]_vars

\* the values the callers of SpecTx upsert: records of the base schema with
\* one secondary value, and two values the schema rejects
TxInputs ==
    {v \in UserRecords :
         \/ Len(v) = Len(BaseSchema) /\ v[1].tag = "Int" /\ v[2] = StringValue("a")
         \/ v \in {<<IntValue(1)>>, <<IntValue(1), Null>>}}

\* a handle that upserts inside and outside transactions and reads, and a
\* handle that reads (tests/integration.rs, test_commit_transaction,
\* test_rollback_transaction)
NextTx ==
    \/ \E h \in Handles : DBInitialize(h, BaseSchema)
    \/ DBClose(1)
    \/ \E values \in TxInputs : DBUpsert(1, values, MaxTxRows)
    \/ TxBegin(1)
    \/ TxCommit(1, MaxTxRows)
    \/ TxRollback(1)
    \/ \E h \in Handles, field \in Fields : \E value \in FieldValues(field) :
           Find(h, field, <<value>>)

SpecTx == Init /\ [][NextTx]_vars

\* ----------------------------------------------------------------- codec
\* i64 / u64 ::to_be_bytes for values that fit 32 bits: four bytes of sign
\* extension, then the low 32 bits, most significant byte first
ToBeBytes(x) ==
    [i \in 1..8 |-> IF i <= 4 THEN (IF x < 0 THEN 255 ELSE 0)
                    ELSE (x \div (256 ^ (8 - i))) % 256]

\* the bytes are the big-endian form of a value that fits 32 bits
FitsBe(b) == \A i \in 1..4 : b[i] = (IF b[5] >= 128 THEN 255 ELSE 0)

\* i64::from_be_bytes of bytes that fit
FromBeBytes(b) ==
    (IF b[5] >= 128 THEN b[5] - 256 ELSE b[5]) * 16777216 + b[6] * 65536 + b[7] * 256 + b[8]

\* an Int past the 32 bits the model keeps
WideInt == [tag |-> "Int", wide |-> TRUE]

\* RecordValue::Int(i64::from_be_bytes(..))
IntFromBeBytes(b) == IF FitsBe(b) THEN [tag |-> "Int", v |-> FromBeBytes(b)] ELSE WideInt

\* u64::from_be_bytes(..) as usize of a length; a length past 31 bits is past
\* the end of every slice, as `limit` is
LengthFromBeBytes(b, limit) ==
    IF FitsBe(b) /\ b[5] < 128 THEN FromBeBytes(b) ELSE limit

\* the f64 values of the model and their IEEE 754 bits, most significant byte
\* first: 0.0, -0.0, 1.5, +infinity, a quiet NaN
Floats == {"0.0", "-0.0", "1.5", "inf", "NaN"}

FloatToBeBytes(f) ==
    IF f = "0.0" THEN <<0, 0, 0, 0, 0, 0, 0, 0>>
    ELSE IF f = "-0.0" THEN <<128, 0, 0, 0, 0, 0, 0, 0>>
    ELSE IF f = "1.5" THEN <<63, 248, 0, 0, 0, 0, 0, 0>>
    ELSE IF f = "inf" THEN <<127, 240, 0, 0, 0, 0, 0, 0>>
    ELSE <<127, 248, 0, 0, 0, 0, 0, 0>>

\* f64::from_be_bytes; bits of no float of the model stay bits
FloatFromBeBytes(b) ==
    IF \E f \in Floats : FloatToBeBytes(f) = b
    THEN CHOOSE f \in Floats : FloatToBeBytes(f) = b
    ELSE "other"

\* String::from_utf8 on the bytes of the model: ASCII is valid UTF-8, a byte
\* past 127 starts no sequence the model holds
ValidUtf8(b) == \A i \in 1..Len(b) : b[i] < 128

\* a RecordValue::deserialize that takes every String and Bytes for empty
DeserializeFixed(bytes) ==
    IF bytes = <<>> THEN [status |-> "panic", value |-> Null, consumed |-> 0]
    ELSE IF bytes[1] = 0 THEN [status |-> "ok", value |-> Null, consumed |-> 1]
    ELSE IF Len(bytes) < 1 + 8 \/ bytes[1] > 4
         THEN [status |-> "panic", value |-> Null, consumed |-> 0]
    ELSE IF bytes[1] = 1
         THEN [status |-> "ok", consumed |-> 1 + 8,
               value |-> IntFromBeBytes(SubSeq(bytes, 2, 1 + 8))]
    ELSE IF bytes[1] = 2
         THEN [status |-> "ok", consumed |-> 1 + 8,
               value |-> [tag |-> "Float", v |-> FloatFromBeBytes(SubSeq(bytes, 2, 1 + 8))]]
    ELSE [status |-> "ok", consumed |-> 1 + 8,
          value |-> [tag |-> IF bytes[1] = 3 THEN "String" ELSE "Bytes", v |-> <<>>]]

\* RecordValue::serialize: the tag, then the value or its length and bytes
RecordValueSerialize(value) ==
    IF value.tag = "Null" THEN <<0>>
    ELSE IF value.tag = "Int" THEN <<1>> \o ToBeBytes(value.v)
    ELSE IF value.tag = "Float" THEN <<2>> \o FloatToBeBytes(value.v)
    ELSE IF value.tag = "String" THEN <<3>> \o ToBeBytes(Len(value.v)) \o value.v
    ELSE <<4>> \o ToBeBytes(Len(value.v)) \o value.v

\* RecordValue::deserialize of a String (tag 3) or Bytes (tag 4) of `length`
DeserializeSized(bytes, length) ==
    IF Len(bytes) < 1 + 8 + length
    THEN [status |-> "panic", value |-> Null, consumed |-> 0]
    ELSE IF bytes[1] = 3 /\ ~ValidUtf8(SubSeq(bytes, 1 + 8 + 1, 1 + 8 + length))
    THEN [status |-> "panic", value |-> Null, consumed |-> 0]
    ELSE [status |-> "ok", consumed |-> 1 + 8 + length,
          value |-> [tag |-> IF bytes[1] = 3 THEN "String" ELSE "Bytes",
                     v |-> SubSeq(bytes, 1 + 8 + 1, 1 + 8 + length)]]

\* RecordValue::deserialize: [status, value, consumed]; a slice past the end
\* of the bytes and a tag past 4 panic
RecordValueDeserialize(bytes) ==
    IF bytes = <<>> THEN [status |-> "panic", value |-> Null, consumed |-> 0]
    ELSE IF bytes[1] = 0 THEN [status |-> "ok", value |-> Null, consumed |-> 1]
    ELSE IF Len(bytes) < 1 + 8 \/ bytes[1] > 4
         THEN [status |-> "panic", value |-> Null, consumed |-> 0]
    ELSE IF bytes[1] = 1
         THEN [status |-> "ok", consumed |-> 1 + 8,
               value |-> IntFromBeBytes(SubSeq(bytes, 2, 1 + 8))]
    ELSE IF bytes[1] = 2
         THEN [status |-> "ok", consumed |-> 1 + 8,
               value |-> [tag |-> "Float", v |-> FloatFromBeBytes(SubSeq(bytes, 2, 1 + 8))]]
    ELSE DeserializeSized(bytes, LengthFromBeBytes(SubSeq(bytes, 2, 1 + 8), Len(bytes)))

RECURSIVE SerializeValues(_)
\* Record::serialize, the loop over the values
SerializeValues(values) ==
    IF values = <<>> THEN <<>>
    ELSE RecordValueSerialize(Head(values)) \o SerializeValues(Tail(values))

\* Record::serialize: the tombstone byte, then the values
RecordSerialize(record) ==
    <<IF record.tombstone THEN 1 ELSE 0>> \o SerializeValues(record.values)

RECURSIVE DeserializeValues(_, _, _)
\* Record::deserialize, the loop: values read so far, from byte `start` on
DeserializeValues(bytes, start, values) ==
    IF start >= Len(bytes) THEN [status |-> "ok", values |-> values, start |-> start]
    ELSE LET d == RecordValueDeserialize(SubSeq(bytes, start + 1, Len(bytes))) IN
         IF d.status # "ok" THEN [status |-> d.status, values |-> values, start |-> start]
         ELSE DeserializeValues(bytes, start + d.consumed, Append(values, d.value))

\* Record::deserialize, given what the loop over the values returned
Deserialized(bytes, read) ==
    [status |-> read.status, consumed |-> read.start,
     record |-> [tombstone |-> bytes[1] # 0, values |-> read.values]]

\* Record::deserialize: [status, record, consumed]
RecordDeserialize(bytes) ==
    IF bytes = <<>>
    THEN [status |-> "panic", consumed |-> 0, record |-> [tombstone |-> FALSE, values |-> <<>>]]
    ELSE Deserialized(bytes, DeserializeValues(bytes, 1, <<>>))

\* the bytes of the Strings and Bytes of the model
Letters == {97, 98}

Octets == {0, 255}

\* the well-typed values of the model: Null, the ends and the byte borders of
\* the integers, the floats, and Strings and Bytes of 0..MaxPayload bytes
CodecValues ==
    {Null}
    \cup {[tag |-> "Int", v |-> x] :
              x \in {0, 1, -1, 255, 256, -256, 2147483647, -2147483647 - 1}}
    \cup {[tag |-> "Float", v |-> f] : f \in Floats}
    \cup {[tag |-> "String", v |-> b] : b \in UNION {[1..n -> Letters] : n \in 0..MaxPayload}}
    \cup {[tag |-> "Bytes", v |-> b] : b \in UNION {[1..n -> Octets] : n \in 0..MaxPayload}}

\* records of 0..MaxValues values, live or tombstones
CodecRecords ==
    [tombstone : BOOLEAN, values : UNION {[1..n -> CodecValues] : n \in 0..MaxValues}]

\* a record about to be written
InitCodec ==
    /\ fs = EmptyDir
    /\ engines = [h \in Handles |-> ClosedEngine]
    /\ overflow_checks \in BOOLEAN
    /\ live = [k \in Keys |-> NoLive]
    /\ hist = {}
    /\ appended = 0
    /\ db = [h \in Handles |-> NoDB]
    /\ codec \in [phase : {"record"}, record : CodecRecords]
    /\ locks = [h \in Handles |-> {}]
    /\ pc = [h \in Handles |-> Idle]

\* record.serialize() before the bytes are appended to the data file
Serialize ==
    /\ codec.phase = "record"
    /\ codec' = [phase |-> "bytes", record |-> codec.record,
                 bytes |-> RecordSerialize(codec.record)]
    /\ UNCHANGED <<fs, engines, overflow_checks, live, hist, appended, db, locks, pc>>

\* Record::deserialize of the bytes a metadata row names
Deserialize ==
    /\ codec.phase = "bytes"
    /\ codec' = [phase |-> "read", record |-> codec.record, bytes |-> codec.bytes,
                 out |-> RecordDeserialize(codec.bytes)]
    /\ UNCHANGED <<fs, engines, overflow_checks, live, hist, appended, db, locks, pc>>

NextCodec == Serialize \/ Deserialize

SpecCodec == InitCodec /\ [][NextCodec]_vars

\* ------------------------------------------------------- validated queries
\* the fields a caller may name: the primary key, the secondary key, a field
\* of the schema that has no index, and a field the schema does not have
QueryFields == {"id", "name", "note", "nosuch"}

NoType == [type |-> "None", nullable |-> FALSE]

\* Engine::get_field_type over config.fields
GetFieldType(field) ==
    CASE field = "id" -> SchemaField("Int", FALSE)
      [] field = "name" -> SchemaField("String", FALSE)
      [] field = "note" -> SchemaField("String", TRUE)
      [] OTHER -> NoType

\* get_secondary_memtable_index_by_field over config.secondary_keys is Some
HasSecondaryIndex(field) == field = "name"

\* Value::as_indexable is Some: an Int or a String
IsIndexable(value) == value.tag \in {"Int", "String"}

\* the conversion of a queried value: type_check, then as_indexable
Convertible(value, type) == TypeCheck(value, type) /\ IsIndexable(value)

\* range_bound_to_indexable is Ok
BoundConvertible(bound, type) == bound.kind = "Unbounded" \/ Convertible(bound.value, type)

\* the values a caller queries with
QueryValues == {Null, IntValue(1), StringValue("a")}

QueryBounds ==
    [kind : {"Included", "Excluded"}, value : QueryValues] \cup {[kind |-> "Unbounded", value |-> Null]}

\* the bound of the memtable range for a converted bound
IndexableBound(bound) ==
    [kind |-> bound.kind, value |-> IF bound.kind = "Unbounded" THEN 0 ELSE bound.value.v]

\* config.read_consistency of the handles: handle 1 reads with Strong, every
\* other handle with Eventual
ReadConsistencyOf(h) == IF h = 1 THEN "Strong" ELSE "Eventual"

\* the refresh a query starts with: refresh_indexes with Strong, nothing with
\* Eventual
QueryRefresh(f, oc, e, consistency) ==
    IF consistency = "Strong" THEN RefreshIndexes(f, oc, e) ELSE [status |-> "ok", engine |-> e]

\* batch_find_by_records after the refresh returned r: the memtable of the
\* field is looked for when the first value is looked up
FindLookedUp(f, field, values, r) ==
    IF r.status # "ok" THEN [status |-> r.status, engine |-> r.engine, out |-> <<>>]
    ELSE IF field # "id" /\ ~HasSecondaryIndex(field) /\ values # <<>>
    THEN [status |-> "ValidationError", engine |-> r.engine, out |-> <<>>]
    ELSE Found(r.engine,
               ReadTaggedLogKeys(f,
                   TagBatches(r.engine, field, [i \in 1..Len(values) |-> values[i].v], 0)))

\* Engine::batch_find_by_records with its validation: [status, engine, out]
FindByValues(f, oc, e, consistency, field, values) ==
    IF GetFieldType(field) = NoType
    THEN [status |-> "ValidationError", engine |-> e, out |-> <<>>]
    ELSE IF \E i \in 1..Len(values) : ~Convertible(values[i], GetFieldType(field))
    THEN [status |-> "ValidationError", engine |-> e, out |-> <<>>]
    ELSE FindLookedUp(f, field, values, QueryRefresh(f, oc, e, consistency))

\* range_by_records after the refresh returned r
RangeLookedUp(f, field, start, end, r) ==
    IF r.status # "ok" THEN [status |-> r.status, engine |-> r.engine, out |-> <<>>]
    ELSE IF field # "id" /\ ~HasSecondaryIndex(field)
    THEN [status |-> "ValidationError", engine |-> r.engine, out |-> <<>>]
    ELSE RangeFound(r.engine,
             ReadTaggedLogKeys(f,
                 Tagged(RangeLogKeys(r.engine, field, IF field = "id" THEN Keys ELSE Names,
                                     IndexableBound(start), IndexableBound(end)), 0)))

\* Engine::range_by_records with its validation: [status, engine, out]
RangeByValues(f, oc, e, consistency, field, start, end) ==
    IF GetFieldType(field) = NoType
    THEN [status |-> "ValidationError", engine |-> e, out |-> <<>>]
    ELSE IF ~BoundConvertible(start, GetFieldType(field))
            \/ ~BoundConvertible(end, GetFieldType(field))
    THEN [status |-> "ValidationError", engine |-> e, out |-> <<>>]
    ELSE RangeLookedUp(f, field, start, end, QueryRefresh(f, oc, e, consistency))

\* DB::batch_find_by / find_by with any field and values
Query(h, field, values) ==
    /\ engines[h].open
    /\ Returned(h, FindByValues(fs, overflow_checks, engines[h], ReadConsistencyOf(h),
                                field, values))
    /\ UNCHANGED <<overflow_checks, live, hist, appended, layers>>

\* DB::range_by with any field and bounds
RangeQuery(h, field, start, end) ==
    /\ engines[h].open
    /\ Returned(h, RangeByValues(fs, overflow_checks, engines[h], ReadConsistencyOf(h),
                                 field, start, end))
    /\ UNCHANGED <<overflow_checks, live, hist, appended, layers>>

\* two handles, one of each read consistency, that write single records and
\* query with valid and invalid fields and values
NextQuery ==
    \/ \E h \in Handles : Initialize(h)
    \/ \E h \in Handles, recs \in WriterBatches :
           Len(recs) = 1 /\ BatchUpsert(h, recs, MaxQueryRows)
    \/ \E h \in Handles, field \in QueryFields, value \in QueryValues :
           Query(h, field, <<value>>)
    \/ \E h \in Handles, field \in QueryFields, start \in QueryBounds, end \in QueryBounds :
           RangeQuery(h, field, start, end)

SpecQuery == Init /\ [][NextQuery]_vars

\* --------------------------------------------------- reading one segment
\* the data files read: one to MaxReaderData records
ReaderData == UNION {[1..m -> LiveRecords] : m \in 1..MaxReaderData}

\* the rows that name one whole record of a data file
RowsOf(data) ==
    {[offset |-> DataLen(SubSeq(data, 1, j - 1)), length |-> SerializedLen(data[j])] :
         j \in 1..Len(data)}

\* the metadata files read: up to MaxReaderRows rows in any order, repeated
\* rows included
ReaderRows(data) == UNION {[1..m -> RowsOf(data)] : m \in 0..MaxReaderRows}

InitReader ==
    /\ fs = EmptyDir
    /\ engines = [h \in Handles |-> ClosedEngine]
    /\ overflow_checks \in BOOLEAN
    /\ live = [k \in Keys |-> NoLive]
    /\ hist = {}
    /\ appended = 0
    /\ db = [h \in Handles |-> NoDB]
    /\ \E data \in ReaderData : \E rows \in ReaderRows(data) :
           codec = [phase |-> "segment", rows |-> rows, data |-> data]
    /\ locks = [h \in Handles |-> {}]
    /\ pc = [h \in Handles |-> Idle]

\* ForwardLogReader::new on the two files, then the iterator until it ends
ReadForward ==
    /\ codec.phase = "segment"
    /\ codec' = [phase |-> "read", rows |-> codec.rows, data |-> codec.data,
                 read |-> ForwardLogReader([rows |-> codec.rows], codec.data, 0, 0,
                                           overflow_checks)]
    /\ UNCHANGED <<fs, engines, overflow_checks, live, hist, appended, db, locks, pc>>

NextReader == ReadForward

SpecReader == InitReader /\ [][NextReader]_vars

\* ---------------------------------------------------------- LogKey packing
\* A u64 is kept as four 16-bit limbs, the most significant first, so that
\* the 48-bit shift and the masks of LogKey are limb moves and the bits an
\* index past 48 bits would spill into the segment number are kept.
Limbs == 0..65535

\* x as u64, for a u16 x
FromU16(x) == <<0, 0, 0, x>>

\* w << 48 on a u64: the low limb moves to the top, the rest is shifted out
Shl48(w) == <<w[4], 0, 0, 0>>

\* w >> 48 on a u64
Shr48(w) == <<0, 0, 0, w[1]>>

RECURSIVE OrBits(_, _, _)
\* a | b on the low n bits
OrBits(a, b, n) ==
    IF n = 0 THEN 0
    ELSE (IF a % 2 = 1 \/ b % 2 = 1 THEN 1 ELSE 0) + 2 * OrBits(a \div 2, b \div 2, n - 1)

RECURSIVE AndBits(_, _, _)
\* a & b on the low n bits
AndBits(a, b, n) ==
    IF n = 0 THEN 0
    ELSE (IF a % 2 = 1 /\ b % 2 = 1 THEN 1 ELSE 0) + 2 * AndBits(a \div 2, b \div 2, n - 1)

\* x | y on u64
BitOr(x, y) == [i \in 1..4 |-> OrBits(x[i], y[i], 16)]

\* x & y on u64
BitAnd(x, y) == [i \in 1..4 |-> AndBits(x[i], y[i], 16)]

\* x < y on u64, which is also #[derive(Ord)] of LogKey(u64)
U64Less(x, y) ==
    \E i \in 1..4 : x[i] < y[i] /\ \A j \in 1..(i - 1) : x[j] = y[j]

\* the mask 0x0000_FFFF_FFFF_FFFF
IndexMask == <<0, 65535, 65535, 65535>>

\* a LogKey::new that packs whatever index it is given
LogKeyNewUnchecked(segment_num, index) ==
    [status |-> "ok", key |-> BitOr(Shl48(FromU16(segment_num)), index)]

\* LogKey::new: assert!(index < (1 << 48)), then (segment_num as u64) << 48 | index
LogKeyNew(segment_num, index) ==
    IF ~U64Less(index, Shl48(FromU16(1))) THEN [status |-> "panic", key |-> <<>>]
    ELSE [status |-> "ok", key |-> BitOr(Shl48(FromU16(segment_num)), index)]

\* LogKey::segment_num: (self.0 >> 48) as u16
LogKeySegmentNum(key) == Shr48(key)[4]

\* LogKey::index: self.0 & 0x0000_FFFF_FFFF_FFFF
LogKeyIndex(key) == BitAnd(key, IndexMask)

\* segment numbers and indexes at the ends and in the middle of their ranges;
\* the indexes include some past 48 bits
PackSegments == {0, 1, 65535}

PackIndexes == {0, 1} \X {0, 65535} \X {0, 65535} \X {0, 1, 65535}

PackInputs == [segment_num : PackSegments, index : PackIndexes]

InitLogKey ==
    /\ fs = EmptyDir
    /\ engines = [h \in Handles |-> ClosedEngine]
    /\ overflow_checks \in BOOLEAN
    /\ live = [k \in Keys |-> NoLive]
    /\ hist = {}
    /\ appended = 0
    /\ db = [h \in Handles |-> NoDB]
    /\ codec \in [phase : {"input"}, a : PackInputs, b : PackInputs]
    /\ locks = [h \in Handles |-> {}]
    /\ pc = [h \in Handles |-> Idle]

\* LogKey::new on both inputs
Pack ==
    /\ codec.phase = "input"
    /\ codec' = [phase |-> "packed", a |-> codec.a, b |-> codec.b,
                 ka |-> LogKeyNew(codec.a.segment_num, codec.a.index),
                 kb |-> LogKeyNew(codec.b.segment_num, codec.b.index)]
    /\ UNCHANGED <<fs, engines, overflow_checks, live, hist, appended, db, locks, pc>>

\* segment_num() and index() of the first key
Unpack ==
    /\ codec.phase = "packed"
    /\ codec.ka.status = "ok"
    /\ codec' = [phase |-> "unpacked", a |-> codec.a, b |-> codec.b,
                 ka |-> codec.ka, kb |-> codec.kb,
                 segment_num |-> LogKeySegmentNum(codec.ka.key),
                 index |-> LogKeyIndex(codec.ka.key)]
    /\ UNCHANGED <<fs, engines, overflow_checks, live, hist, appended, db, locks, pc>>

\* the first key < the second key
Compare ==
    /\ codec.phase = "unpacked"
    /\ codec.kb.status = "ok"
    /\ codec' = [phase |-> "compared", a |-> codec.a, b |-> codec.b,
                 ka |-> codec.ka, kb |-> codec.kb,
                 segment_num |-> codec.segment_num, index |-> codec.index,
                 less |-> U64Less(codec.ka.key, codec.kb.key)]
    /\ UNCHANGED <<fs, engines, overflow_checks, live, hist, appended, db, locks, pc>>

NextLogKey == Pack \/ Unpack \/ Compare

SpecLogKey == InitLogKey /\ [][NextLogKey]_vars

\* ---------------------------------------------------------------- LogKeySet
\* the LogKeys put into and taken out of a LogKeySet
SetKeys == {LogKey(1, 0), LogKey(1, 1), LogKey(2, 0), LogKey(2, 1)}

\* the slices given to from_slice: one or two LogKeys, repeats included
SetSlices == {<<k>> : k \in SetKeys} \cup {<<k, l>> : k \in SetKeys, l \in SetKeys}

\* LogKeySet::new_with_initial
LogKeySetNewWithInitial(key) == {key}

\* LogKeySet::from_slice on a non-empty slice
LogKeySetFromSlice(keys) == {keys[i] : i \in DOMAIN keys}

\* LogKeySet::insert
LogKeySetInsert(set, key) == set \cup {key}

\* a remove that takes the key out of a set of any size
LogKeySetRemoveAny(set, key) ==
    IF key \notin set THEN [status |-> "NotFound", set |-> set]
    ELSE [status |-> "Ok", set |-> set \ {key}]

\* LogKeySet::remove: the size is looked at first, then HashSet::remove
LogKeySetRemove(set, key) ==
    IF Cardinality(set) = 1 THEN [status |-> "InvalidInput", set |-> set]
    ELSE IF key \notin set THEN [status |-> "NotFound", set |-> set \ {key}]
    ELSE [status |-> "Ok", set |-> set \ {key}]

InitLogKeySet ==
    /\ fs = EmptyDir
    /\ engines = [h \in Handles |-> ClosedEngine]
    /\ overflow_checks \in BOOLEAN
    /\ live = [k \in Keys |-> NoLive]
    /\ hist = {}
    /\ appended = 0
    /\ db = [h \in Handles |-> NoDB]
    /\ \E set \in {LogKeySetNewWithInitial(k) : k \in SetKeys}
                  \cup {LogKeySetFromSlice(keys) : keys \in SetSlices} :
           codec = [phase |-> "set", op |-> "new", set |-> set, before |-> set,
                    key |-> NoKey, status |-> "Ok"]
    /\ locks = [h \in Handles |-> {}]
    /\ pc = [h \in Handles |-> Idle]

\* set.insert(key)
SetInsert(key) ==
    /\ codec.phase = "set"
    /\ codec' = [phase |-> "set", op |-> "insert", set |-> LogKeySetInsert(codec.set, key),
                 before |-> codec.set, key |-> key, status |-> "Ok"]
    /\ UNCHANGED <<fs, engines, overflow_checks, live, hist, appended, db, locks, pc>>

\* set.remove(&key)
SetRemove(key) ==
    /\ codec.phase = "set"
    /\ LET r == LogKeySetRemove(codec.set, key)
       IN codec' = [phase |-> "set", op |-> "remove", set |-> r.set,
                    before |-> codec.set, key |-> key, status |-> r.status]
    /\ UNCHANGED <<fs, engines, overflow_checks, live, hist, appended, db, locks, pc>>

NextLogKeySet ==
    \/ \E key \in SetKeys : SetInsert(key)
    \/ \E key \in SetKeys : SetRemove(key)

SpecLogKeySet == InitLogKeySet /\ [][NextLogKeySet]_vars

\* ------------------------------------------------------------ lock protocol
\* The operations again, one action per blocking step: a lock acquisition
\* blocks until the lock can be granted. Data file locks are taken and
\* released within one step and never stand in the way of another handle.
ExclLockReq == [file |-> "excl_lock_req", id |-> 0]

MetadataFile(inode) == [file |-> "metadata", id |-> inode]

FileLock(on, mode) == [on |-> on, mode |-> mode]

\* the advisory lock of the OS: shared locks of a file go together, an
\* exclusive lock goes with no other lock of the file
Grantable(h, on, mode) ==
    \A g \in DOMAIN locks \ {h} :
        \A l \in locks[g] : l.on = on => (mode = "shared" /\ l.mode = "shared")

\* a shared acquisition that takes nothing on excl_lock_req
SkipBarrier(held) == held

\* request_shared_lock, first step: shared on excl_lock_req
EnterBarrier(held) == held \cup {FileLock(ExclLockReq, "shared")}

\* request_shared_lock, second step: shared on the file, excl_lock_req released
PassBarrier(held, on) ==
    (held \ {FileLock(ExclLockReq, "shared")}) \cup {FileLock(on, "shared")}

\* request_exclusive_lock, first step: exclusive on excl_lock_req
EnterExclusive(held) == held \cup {FileLock(ExclLockReq, "exclusive")}

\* request_exclusive_lock, second step: exclusive on the file, excl_lock_req
\* released
PassExclusive(held, on) ==
    (held \ {FileLock(ExclLockReq, "exclusive")}) \cup {FileLock(on, "exclusive")}

\* the shared locks refresh_indexes and read_tagged_log_keys take one after
\* the other, each through the barrier, can all be granted
ReadGrantable(h) ==
    /\ Grantable(h, ExclLockReq, "shared")
    /\ \A segnum \in 1..Len(fs.metadata) :
           Grantable(h, MetadataFile(fs.metadata[segnum]), "shared")

\* the record the handles of SpecLocks write
LockRecord == [id |-> 1, name |-> "a", tombstone |-> FALSE]

\* handle h moves to `at` holding the locks `held`
Step(h, at, held) ==
    /\ pc' = [pc EXCEPT ![h] = at]
    /\ locks' = [locks EXCEPT ![h] = held]

\* Engine::initialize under the init lock, the first refresh_indexes included
LockInitialize(h) ==
    /\ ~engines[h].open
    /\ ReadGrantable(h)
    /\ Opened(h, Bootstrap(fs), OpenEngine(Bootstrap(fs), overflow_checks))
    /\ UNCHANGED <<overflow_checks, live, hist, appended, layers>>

\* batch_upsert_records: request_exclusive_lock called, exclusive on
\* excl_lock_req granted
UpsertRequest(h, max_rows) ==
    /\ engines[h].open
    /\ \/ pc[h].at = "idle" /\ appended < max_rows /\ appended' = appended + 1
       \/ pc[h].at = "upsert_retry" /\ appended' = appended
    /\ Grantable(h, ExclLockReq, "exclusive")
    /\ Step(h, [at |-> "upsert_req"], EnterExclusive(locks[h]))
    /\ UNCHANGED <<fs, engines, overflow_checks, live, hist, db, codec>>

\* batch_upsert_records: exclusive on the metadata file the handle holds
UpsertLock(h) ==
    /\ pc[h].at = "upsert_req"
    /\ Grantable(h, MetadataFile(engines[h].active_metadata_file), "exclusive")
    /\ Step(h, [at |-> "upsert_locked"],
            PassExclusive(locks[h], MetadataFile(engines[h].active_metadata_file)))
    /\ UNCHANGED <<fs, engines, overflow_checks, live, hist, appended, db, codec>>

\* batch_upsert_records under the lock: ensure_metadata_file_is_active finds
\* the handle's file to be the one `active` names
UpsertCheck(h) ==
    /\ pc[h].at = "upsert_locked"
    /\ EnsureMetadataFileIsActive(fs, engines[h]).correct
    /\ Step(h, [at |-> "upsert_checked"], locks[h])
    /\ UNCHANGED <<fs, engines, overflow_checks, live, hist, appended, db, codec>>

\* batch_upsert_records after the check: `active` is read for the segment
\* number, then the appends to the data file and to the metadata file the
\* handle holds, the unlocks and the memtable insertions
UpsertWrite(h) ==
    /\ pc[h].at = "upsert_checked"
    /\ Upserted(h, UpsertActive(fs, engines[h], <<LockRecord>>))
    /\ Step(h, Idle, {})
    /\ live' = LiveAfter(live, h, <<LockRecord>>)
    /\ UNCHANGED <<overflow_checks, hist, appended, db, codec>>

\* ensure_metadata_file_is_active, the handle's file is not the active one:
\* the active file is opened and request_shared_lock called on it
UpsertStale(h) ==
    /\ pc[h].at = "upsert_locked"
    /\ ~EnsureMetadataFileIsActive(fs, engines[h]).correct
    /\ Grantable(h, ExclLockReq, "shared")
    /\ Step(h, [at |-> "upsert_reopen", file |-> fs.metadata[fs.active]],
            EnterBarrier(locks[h]))
    /\ UNCHANGED <<fs, engines, overflow_checks, live, hist, appended, db, codec>>

\* ensure_metadata_file_is_active: shared on the opened file; the handle takes
\* it and the data file that the header of the file it held names, the file
\* it held is dropped, the new one unlocked, and the upsert starts again
UpsertReopen(h) ==
    /\ pc[h].at = "upsert_reopen"
    /\ Grantable(h, MetadataFile(pc[h].file), "shared")
    /\ engines' = [engines EXCEPT ![h] =
                       [@ EXCEPT !.active_metadata_file = pc[h].file,
                                 !.active_data_file =
                                     fs.inodes[engines[h].active_metadata_file].uuid]]
    /\ Step(h, [at |-> "upsert_retry"], {})
    /\ UNCHANGED <<fs, overflow_checks, live, hist, appended, db, codec>>

\* read_tagged_log_keys of the segment of the LogKey the handle holds for key
\* 1 (a find with ReadConsistency::Eventual): the metadata file is opened and
\* request_shared_lock called on it
ReadRequest(h) ==
    /\ engines[h].open
    /\ pc[h].at = "idle"
    /\ engines[h].primary_memtable[1] # NoKey
    /\ Grantable(h, ExclLockReq, "shared")
    /\ Step(h, [at |-> "read_req",
                file |-> fs.metadata[engines[h].primary_memtable[1].seg]],
            EnterBarrier(locks[h]))
    /\ UNCHANGED <<fs, engines, overflow_checks, live, hist, appended, db, codec>>

\* read_tagged_log_keys: shared on the metadata file
ReadLock(h) ==
    /\ pc[h].at = "read_req"
    /\ Grantable(h, MetadataFile(pc[h].file), "shared")
    /\ Step(h, [at |-> "read_locked", file |-> pc[h].file],
            PassBarrier(locks[h], MetadataFile(pc[h].file)))
    /\ UNCHANGED <<fs, engines, overflow_checks, live, hist, appended, db, codec>>

\* read_tagged_log_keys: the rows and the records are read, the files unlocked
ReadDone(h) ==
    /\ pc[h].at = "read_locked"
    /\ Step(h, Idle, {})
    /\ UNCHANGED <<fs, engines, overflow_checks, live, hist, appended, db, codec>>

\* delete_by_field of key 1, given what batch_find_by_records returned: on Ok
\* request_exclusive_lock is called and exclusive on excl_lock_req granted
DeleteFind(h, found, max_rows) ==
    /\ engines' = [engines EXCEPT ![h] = After(found.status, found.engine)]
    /\ IF found.status = "ok"
       THEN /\ appended + Len(found.out) <= max_rows
            /\ appended' = appended + Len(found.out)
            /\ Step(h, [at |-> "delete_req", recs |-> Tombstones(found.out)],
                    EnterExclusive(locks[h]))
       ELSE /\ appended' = appended
            /\ Step(h, Idle, {})

\* delete_by_field: the find, then request_exclusive_lock
DeleteRequest(h, max_rows) ==
    /\ engines[h].open
    /\ pc[h].at = "idle"
    /\ ReadGrantable(h)
    /\ Grantable(h, ExclLockReq, "exclusive")
    /\ DeleteFind(h, BatchFindByRecords(fs, overflow_checks, engines[h], "id", <<1>>),
                  max_rows)
    /\ UNCHANGED <<fs, overflow_checks, live, hist, db, codec>>

\* delete_by_field: exclusive on the metadata file the handle holds
DeleteLock(h) ==
    /\ pc[h].at = "delete_req"
    /\ Grantable(h, MetadataFile(engines[h].active_metadata_file), "exclusive")
    /\ Step(h, [at |-> "delete_locked", recs |-> pc[h].recs],
            PassExclusive(locks[h], MetadataFile(engines[h].active_metadata_file)))
    /\ UNCHANGED <<fs, engines, overflow_checks, live, hist, appended, db, codec>>

\* delete_by_field under the lock: the tombstones are appended, the memtables
\* updated, the files unlocked
DeleteWrite(h) ==
    /\ pc[h].at = "delete_locked"
    /\ Upserted(h, AppendTombstones(fs, engines[h], pc[h].recs))
    /\ Step(h, Idle, {})
    /\ live' = LiveWithout(live, "id", 1)
    /\ hist' = hist \cup {"delete"}
    /\ UNCHANGED <<overflow_checks, appended, db, codec>>

\* do_maintenance_tasks: request_exclusive_lock called, exclusive on
\* excl_lock_req granted
MaintenanceRequest(h) ==
    /\ engines[h].open
    /\ pc[h].at = "idle"
    /\ Grantable(h, ExclLockReq, "exclusive")
    /\ Step(h, [at |-> "maintenance_req"], EnterExclusive(locks[h]))
    /\ UNCHANGED <<fs, engines, overflow_checks, live, hist, appended, db, codec>>

\* do_maintenance_tasks: exclusive on the metadata file the handle holds
MaintenanceLock(h) ==
    /\ pc[h].at = "maintenance_req"
    /\ Grantable(h, MetadataFile(engines[h].active_metadata_file), "exclusive")
    /\ Step(h, [at |-> "maintenance_locked"],
            PassExclusive(locks[h], MetadataFile(engines[h].active_metadata_file)))
    /\ UNCHANGED <<fs, engines, overflow_checks, live, hist, appended, db, codec>>

\* do_maintenance_tasks: the file the handle holds is below the threshold
MaintenanceSkip(h) ==
    /\ pc[h].at = "maintenance_locked"
    /\ MetadataLen(fs.inodes[engines[h].active_metadata_file]) < segment_size
    /\ Step(h, Idle, {})
    /\ UNCHANGED <<fs, engines, overflow_checks, live, hist, appended, db, codec>>

\* rotate_and_compact up to the rename, given what the forward reader read of
\* the files the handle holds: a panic drops the handle and its locks
Compacted(h, active_num, read) ==
    IF read.status # "ok"
    THEN /\ engines' = [engines EXCEPT ![h] = ClosedEngine]
         /\ Step(h, Idle, {})
         /\ UNCHANGED fs
    ELSE /\ fs' = Renamed(fs, active_num, read.items,
                          CompactedData(read.items,
                              {read.items[i].record.id : i \in 1..Len(read.items)}))
         /\ Step(h, [at |-> "maintenance_renamed", active_num |-> active_num,
                     uuid |-> Len(fs.datafiles) + 1], locks[h])
         /\ UNCHANGED engines

\* do_maintenance_tasks at the threshold, rotate_and_compact up to the rename:
\* `active` is read, the segment the handle holds is read and compacted, and
\* the compacted metadata file renamed over metadata.<active>
MaintenanceCompact(h) ==
    /\ pc[h].at = "maintenance_locked"
    /\ MetadataLen(fs.inodes[engines[h].active_metadata_file]) >= segment_size
    /\ fs.active < MaxSegments
    /\ Compacted(h, fs.active,
           ForwardLogReader(fs.inodes[engines[h].active_metadata_file],
                            fs.datafiles[engines[h].active_data_file], 0,
                            DataLen(fs.datafiles[engines[h].active_data_file]),
                            overflow_checks))
    /\ hist' = hist \cup {"maintenance"}
    /\ UNCHANGED <<overflow_checks, live, appended, db, codec>>

\* rotate_and_compact after the rename: the new segment, `active`, the handle
\* reopens its files; the file it held is dropped and with it its lock
MaintenanceRotate(h) ==
    /\ pc[h].at = "maintenance_renamed"
    /\ Upserted(h, Reopened(NewSegment(fs, pc[h].active_num, pc[h].uuid),
                            engines[h], pc[h].active_num, pc[h].uuid))
    /\ Step(h, Idle, {})
    /\ UNCHANGED <<overflow_checks, live, hist, appended, db, codec>>

\* any number of handles on one directory, each inside an operation of its own
NextLocks ==
    \/ \E h \in Handles : LockInitialize(h)
    \/ \E h \in Handles : UpsertRequest(h, MaxLockRows)
    \/ \E h \in Handles : UpsertLock(h)
    \/ \E h \in Handles : UpsertCheck(h)
    \/ \E h \in Handles : UpsertWrite(h)
    \/ \E h \in Handles : UpsertStale(h)
    \/ \E h \in Handles : UpsertReopen(h)
    \/ \E h \in Handles : ReadRequest(h)
    \/ \E h \in Handles : ReadLock(h)
    \/ \E h \in Handles : ReadDone(h)
    \/ \E h \in Handles : DeleteRequest(h, MaxLockRows)
    \/ \E h \in Handles : DeleteLock(h)
    \/ \E h \in Handles : DeleteWrite(h)
    \/ \E h \in Handles : MaintenanceRequest(h)
    \/ \E h \in Handles : MaintenanceLock(h)
    \/ \E h \in Handles : MaintenanceSkip(h)
    \/ \E h \in Handles : MaintenanceCompact(h)
    \/ \E h \in Handles : MaintenanceRotate(h)

SpecLocks == Init /\ [][NextLocks]_vars

\* one handle more than in the other specifications: two handles that hold
\* the same metadata file and a third that rotates it away
WaitHandles == 1..(NumHandles + 1)

InitWaits ==
    /\ fs = EmptyDir
    /\ engines = [h \in WaitHandles |-> ClosedEngine]
    /\ overflow_checks \in BOOLEAN
    /\ live = [k \in Keys |-> NoLive]
    /\ hist = {}
    /\ appended = 0
    /\ db = [h \in WaitHandles |-> NoDB]
    /\ codec = NoCodec
    /\ locks = [h \in WaitHandles |-> {}]
    /\ pc = [h \in WaitHandles |-> Idle]

\* the handle that rotates, the last one; it also reads, deletes and upserts
Rotator == NumHandles + 1

NextWaits ==
    \/ \E h \in WaitHandles : LockInitialize(h)
    \/ \E h \in WaitHandles : UpsertRequest(h, MaxWaitRows)
    \/ \E h \in WaitHandles : UpsertLock(h)
    \/ \E h \in WaitHandles : UpsertCheck(h)
    \/ \E h \in WaitHandles : UpsertWrite(h)
    \/ \E h \in WaitHandles : UpsertStale(h)
    \/ \E h \in WaitHandles : UpsertReopen(h)
    \/ ReadRequest(Rotator)
    \/ ReadLock(Rotator)
    \/ ReadDone(Rotator)
    \/ DeleteRequest(Rotator, MaxWaitRows)
    \/ DeleteLock(Rotator)
    \/ DeleteWrite(Rotator)
    \/ MaintenanceRequest(Rotator)
    \/ MaintenanceLock(Rotator)
    \/ MaintenanceSkip(Rotator)
    \/ MaintenanceCompact(Rotator)
    \/ MaintenanceRotate(Rotator)

SpecWaits == InitWaits /\ [][NextWaits]_vars

\* ------------------------------------------------ concurrent initialization
\* Engine::initialize, one action per statement that another handle can
\* observe: the init lock, the files of the bootstrap, the link, the opens.
InitLockFile == [file |-> "init_lock", id |-> 0]

\* an init lock that is never waited for
InitLockSkipped(h) == TRUE

\* init_lock_file.lock_exclusive() returns
InitLockGranted(h) == Grantable(h, InitLockFile, "exclusive")

\* initialize: the directory and the lock file are created, the init lock is
\* taken
InitRequest(h) ==
    /\ ~engines[h].open
    /\ pc[h].at = "idle"
    /\ InitLockGranted(h)
    /\ Step(h, [at |-> "init_locked"], locks[h] \cup {FileLock(InitLockFile, "exclusive")})
    /\ UNCHANGED <<fs, engines, overflow_checks, live, hist, appended, db, codec>>

\* initialize, `active` does not exist: create_segment_data_file
InitCreateData(h) ==
    /\ pc[h].at = "init_locked"
    /\ fs.active = 0
    /\ fs' = [fs EXCEPT !.datafiles = Append(@, <<>>)]
    /\ Step(h, [at |-> "init_data", uuid |-> Len(fs.datafiles) + 1], locks[h])
    /\ UNCHANGED <<engines, overflow_checks, live, hist, appended, db, codec>>

\* create_segment_metadata_file: the next metadata.<N> is created, empty
InitCreateMetadata(h) ==
    /\ pc[h].at = "init_data"
    /\ fs' = [fs EXCEPT !.metadata = Append(@, Len(fs.inodes) + 1),
                        !.inodes = Append(@, [uuid |-> 0, rows |-> <<>>, headers |-> 0])]
    /\ Step(h, [at |-> "init_metadata", uuid |-> pc[h].uuid,
                segment_num |-> Len(fs.metadata) + 1], locks[h])
    /\ UNCHANGED <<engines, overflow_checks, live, hist, appended, db, codec>>

\* create_segment_metadata_file: the header naming the data file is written
InitWriteHeader(h) ==
    /\ pc[h].at = "init_metadata"
    /\ fs' = [fs EXCEPT !.inodes[fs.metadata[pc[h].segment_num]] =
                            [uuid |-> pc[h].uuid, rows |-> <<>>]]
    /\ Step(h, [at |-> "init_header", segment_num |-> pc[h].segment_num], locks[h])
    /\ UNCHANGED <<engines, overflow_checks, live, hist, appended, db, codec>>

\* set_active_segment, then excl_lock_req is created
InitSetActive(h) ==
    /\ pc[h].at = "init_header"
    /\ fs' = [fs EXCEPT !.active = pc[h].segment_num]
    /\ Step(h, [at |-> "init_active"], locks[h])
    /\ UNCHANGED <<engines, overflow_checks, live, hist, appended, db, codec>>

\* init_lock_file.unlock(), after the bootstrap or when `active` exists
InitUnlock(h) ==
    /\ \/ pc[h].at = "init_active"
       \/ pc[h].at = "init_locked" /\ fs.active # 0
    /\ Step(h, [at |-> "init_unlocked"], locks[h] \ {FileLock(InitLockFile, "exclusive")})
    /\ UNCHANGED <<fs, engines, overflow_checks, live, hist, appended, db, codec>>

\* initialize: `active` is read, the metadata file it names opened, its
\* header read and the data file the header names opened
InitOpen(h) ==
    /\ pc[h].at = "init_unlocked"
    /\ Step(h, [at |-> "init_opened", metadata |-> fs.metadata[fs.active],
                data |-> fs.inodes[fs.metadata[fs.active]].uuid], locks[h])
    /\ UNCHANGED <<fs, engines, overflow_checks, live, hist, appended, db, codec>>

\* initialize: the first refresh_indexes, and the engine is returned
InitRefresh(h) ==
    /\ pc[h].at = "init_opened"
    /\ ReadGrantable(h)
    /\ Opened(h, fs,
              RefreshIndexes(fs, overflow_checks,
                  [open |-> TRUE, active_metadata_file |-> pc[h].metadata,
                   active_data_file |-> pc[h].data,
                   primary_memtable |-> EmptyPrimary, secondary_memtables |-> EmptySecondary,
                   refresh_next_logkey |-> LogKey(1, 0)]))
    /\ Step(h, Idle, locks[h])
    /\ UNCHANGED <<overflow_checks, live, hist, appended, db, codec>>

\* several handles initialized at the same time on an absent directory,
\* dropped and initialized again
NextInit ==
    \/ \E h \in WaitHandles : InitRequest(h)
    \/ \E h \in WaitHandles : InitCreateData(h)
    \/ \E h \in WaitHandles : InitCreateMetadata(h)
    \/ \E h \in WaitHandles : InitWriteHeader(h)
    \/ \E h \in WaitHandles : InitSetActive(h)
    \/ \E h \in WaitHandles : InitUnlock(h)
    \/ \E h \in WaitHandles : InitOpen(h)
    \/ \E h \in WaitHandles : InitRefresh(h)
    \/ \E h \in WaitHandles : Close(h)

SpecInit == InitWaits /\ [][NextInit]_vars

\* ------------------------------------------------------------ properties
\* what a Strong batch_find_by returns to handle h in the current state
FindOut(h, field, values) ==
    LET r == BatchFindByRecords(fs, overflow_checks, engines[h], field, values)
    IN [status |-> r.status, out |-> r.out]

\* what a Strong range_by returns to handle h in the current state
RangeOut(h, field, start, end) ==
    LET r == RangeByRecords(fs, overflow_checks, engines[h], field, start, end)
    IN [status |-> r.status, out |-> r.out]

\* the value a record holds in a field
FieldOf(record, field) == IF field = "id" THEN record.id ELSE record.name

\* what get(k) should return: the record last upserted for k, if any
Expected(k) == IF live[k] = NoLive THEN <<>> ELSE <<[tag |-> 0, record |-> live[k].record]>>

\* the records of a tagged result
OutRecords(out) == {out[i].record : i \in 1..Len(out)}

\* the records last upserted, and not deleted, with `value` in `field`
LiveMatching(field, value) == {live[k].record : k \in Matching(live, field, value)}

\* a value lies within lo..hi, lo..=hi, ..=hi, lo.. or ..
Within(field, value, start, end) ==
    /\ start.kind = "Unbounded" \/ Rank(field, start.value) <= Rank(field, value)
    /\ \/ end.kind = "Unbounded"
       \/ Rank(field, value) < Rank(field, end.value)
       \/ end.kind = "Included" /\ value = end.value

\* find_by on the secondary field returns, for every value, only records that
\* are the last upserted record of a live key, and all of those
SecondaryExact(h) ==
    \A v \in Names :
        /\ FindOut(h, "name", <<v>>).status = "ok"
        /\ OutRecords(FindOut(h, "name", <<v>>).out) = LiveMatching("name", v)

\* C1: after any sequence of successful upserts by any handles (no delete, no
\* maintenance; release build), a Strong find by primary key k returns on
\* every open handle exactly the record last upserted for k, and nothing for
\* a key never upserted.
C1_LastWriteWins ==
    (~overflow_checks /\ hist \cap {"delete", "maintenance"} = {}) =>
        \A h \in Handles : engines[h].open =>
            \A k \in Keys : FindOut(h, "id", <<k>>) = [status |-> "ok", out |-> Expected(k)]

\* C2: after upserts only (nothing deleted, no maintenance run), find_by(name, v)
\* on an open handle returns exactly the last upserted records of the keys
\* whose name is v: every returned record is the last record of its key and
\* has name v, and none is missing.
C2_SecondaryFindExact == (engines[1].open /\ hist = {}) => SecondaryExact(1)

\* C3: when no key was upserted by two different handles (and nothing was
\* deleted or rotated; release build), a reader initialized now finds every
\* upserted key with the record its writer wrote, and no other key.
C3_DisjointWritersAllFound ==
    (~overflow_checks /\ hist = {}) =>
        LET f == Bootstrap(fs)
            reader == OpenEngine(f, overflow_checks)
        IN /\ reader.status = "ok"
           /\ \A k \in Keys :
                  LET o == BatchFindByRecords(f, overflow_checks, reader.engine, "id", <<k>>)
                  IN o.status = "ok" /\ o.out = Expected(k)

\* C4: in a release build, once a single-record batch_upsert of a record has
\* returned on handle w, a Strong get of its key on any other open handle g
\* returns that record, also after segments were rotated and compacted.
C4_VisibleAcrossRotation ==
    ~overflow_checks =>
        \A w \in Handles, g \in Handles :
            (w # g /\ engines[w].open /\ engines[g].open) =>
                \A rec \in LiveRecords :
                    LET u == BatchUpsertRecords(fs, engines[w], <<rec>>)
                        o == BatchFindByRecords(u.fs, overflow_checks, engines[g], "id",
                                                <<rec.id>>)
                    IN o.status = "ok" /\ o.out = <<[tag |-> 0, record |-> rec]>>

\* C5: where find_by is exact, a successful delete_by(f, v) leaves find_by(f, v)
\* empty and the primary key of every deleted record not found, and leaves
\* find_by(f, w) for every other value w as it was.
C5_DeleteByThenFindByEmpty ==
    (engines[1].open /\ SecondaryExact(1)) =>
        \A f \in Fields : \A v \in FieldValues(f) :
            LET d == DeleteByField(fs, overflow_checks, engines[1], f, v)
                after(field, value) ==
                    BatchFindByRecords(d.fs, overflow_checks, d.engine, field, <<value>>)
            IN d.status = "ok" =>
                   /\ after(f, v).status = "ok" /\ after(f, v).out = <<>>
                   /\ \A i \in 1..Len(d.out) :
                          after("id", d.out[i].id).status = "ok"
                          /\ after("id", d.out[i].id).out = <<>>
                   /\ \A w \in FieldValues(f) \ {v} :
                          /\ after(f, w).status = "ok"
                          /\ OutRecords(after(f, w).out) = OutRecords(FindOut(1, f, <<w>>).out)

\* C6: where find_by is exact and several live keys share the name v, deleting
\* one of them by primary key leaves find_by(name, v) returning exactly the
\* records of the other keys.
C6_DeleteUpdatesSecondary ==
    (engines[1].open /\ SecondaryExact(1)) =>
        \A v \in Names : \A k \in Matching(live, "name", v) :
            Cardinality(Matching(live, "name", v)) >= 2 =>
                LET d == DeleteByField(fs, overflow_checks, engines[1], "id", k)
                    o == BatchFindByRecords(d.fs, overflow_checks, d.engine, "name", <<v>>)
                IN d.status = "ok" =>
                       /\ o.status = "ok"
                       /\ OutRecords(o.out) =
                              {live[j].record : j \in Matching(live, "name", v) \ {k}}

\* C7: after upserts only (nothing deleted, no maintenance run),
\* range_by(field, bounds) on the primary or the secondary key returns exactly
\* the live records whose value of the field lies within the bounds, for
\* lo..hi, lo..=hi, ..=hi and lo..
C7_RangeExact ==
    (engines[1].open /\ hist = {}) =>
        \A field \in Fields : \A b \in RangeInputs(field) :
            LET o == RangeOut(1, field, b[1], b[2])
            IN /\ o.status = "ok"
               /\ {o.out[i] : i \in 1..Len(o.out)} =
                      {live[k].record : k \in {j \in Keys :
                           /\ live[j] # NoLive
                           /\ Within(field, FieldOf(live[j].record, field), b[1], b[2])}}

\* C8: batch_find_by(field, values) returns (tag, record) pairs where every
\* record matches values[tag] on the field, every live record matching
\* values[i] is returned with tag i, and for the primary key no tag repeats.
C8_BatchFindTags ==
    engines[1].open =>
        \A field \in Fields : \A values \in ValueSeqs(field, MaxFind) :
            LET o == FindOut(1, field, values)
            IN /\ o.status = "ok"
               /\ \A i \in 1..Len(o.out) :
                      FieldOf(o.out[i].record, field) = values[o.out[i].tag + 1]
               /\ \A t \in 1..Len(values) : \A k \in Matching(live, field, values[t]) :
                      \E i \in 1..Len(o.out) :
                          o.out[i] = [tag |-> t - 1, record |-> live[k].record]
               /\ field = "id" =>
                      \A i, j \in 1..Len(o.out) : i # j => o.out[i].tag # o.out[j].tag

\* C9: in a release build, do_maintenance on any open handle rotates exactly
\* when the active segment's metadata file has reached segment_size: then
\* `active` moves to a new segment N+1, otherwise the directory is unchanged.
C9_RotatesExactlyAtThreshold ==
    ~overflow_checks =>
        \A h \in Handles : engines[h].open =>
            LET r == DoMaintenanceTasks(fs, overflow_checks, engines[h])
            IN r.status = "ok" =>
                   IF MetadataLen(MetadataInode(fs, fs.active)) >= segment_size
                   THEN r.fs.active = fs.active + 1 /\ Len(r.fs.metadata) = fs.active + 1
                   ELSE r.fs = fs

\* C10: once a segment was rotated there is more than one metadata file, and
\* the metadata file of every rotated (compacted) segment has size at least
\* segment_size.
C10_RotatedSegmentKeepsThreshold ==
    fs.active > 1 =>
        /\ Len(fs.metadata) > 1
        /\ \A n \in 1..(fs.active - 1) : MetadataLen(MetadataInode(fs, n)) >= segment_size

\* a rotated segment whose compaction kept fewer records than it has rows
C10_Witness ==
    /\ fs.active > 1
    /\ \E n \in 1..(fs.active - 1) :
           Len(fs.datafiles[MetadataInode(fs, n).uuid]) < Len(MetadataInode(fs, n).rows)
\* every field of a schema extension is nullable
AllNullable(ext) == \A i \in 1..Len(ext) : ext[i].nullable

\* get(k) on engine e over directory f
GetOut(f, e, k) ==
    LET r == BatchFindByRecords(f, overflow_checks, e, "id", <<k>>)
    IN [status |-> r.status, out |-> r.out]

\* the open with the longer schema finds what the open with the schema finds,
\* and a record of the longer schema after its upsert
OldAndNewFound(same, longer, schema) ==
    /\ \A k \in Keys : GetOut(fs, longer.engine, k) = GetOut(fs, same.engine, k)
    /\ \A values \in SchemaInputs :
           ValidateRecord(schema, values) =>
               LET w == DBUpsertRecord(fs, longer.engine, OpenDB(schema), values) IN
               /\ w.status = "ok"
               /\ GetOut(w.fs, w.engine, values[1].v) =
                      [status |-> "ok",
                       out |-> <<[tag |-> 0, record |-> IntoRecord(values)]>>]
               /\ \A k \in Keys \ {values[1].v} :
                      GetOut(w.fs, w.engine, k) = GetOut(fs, same.engine, k)

NullInNonNullable(schema, values) ==
    \E i \in 1..Len(values) : i <= Len(schema) /\ values[i] = Null /\ ~schema[i].nullable

\* the values are not as many as the fields of the schema
WrongNumberOfValues(schema, values) == Len(values) # Len(schema)

\* a value that is not Null is not of the type of its field
WrongValueType(schema, values) ==
    \E i \in 1..Len(values) :
        i <= Len(schema) /\ values[i] # Null /\ values[i].tag # schema[i].type

\* C12: an upsert of values that the schema of the handle does not accept (a
\* Null in a non-nullable field, a wrong number of values, a value of a wrong
\* type) returns an error, appends nothing to any file, and leaves the
\* memtables and the deferred records of the handle as they were
C12_InvalidUpsertChangesNothing ==
    \A h \in Handles :
        (engines[h].open /\ db[h].schema # <<>>) =>
            \A values \in UserRecords :
                (\/ NullInNonNullable(db[h].schema, values)
                 \/ WrongNumberOfValues(db[h].schema, values)
                 \/ WrongValueType(db[h].schema, values)) =>
                    LET r == DBUpsertRecord(fs, engines[h], db[h], values) IN
                    /\ r.status = "ValidationError"
                    /\ r.fs = fs
                    /\ r.engine = engines[h]
                    /\ r.db.tx = db[h].tx

\* an upsert was rejected by a handle whose schema has a non-nullable field
\* past the key fields, on a directory that holds a record
C12_Witness ==
    /\ engines[1].open
    /\ db[1].last = "rejected"
    /\ \E i \in 3..Len(db[1].schema) : ~db[1].schema[i].nullable
    /\ MetadataInode(fs, 1).rows # <<>>

\* the records a transaction defers have distinct primary keys
DistinctKeys(tx) == \A i, j \in 1..Len(tx) : tx[i].id = tx[j].id => i = j

\* find_by(name, n) on engine e over directory f
FindByNameOut(f, e, n) ==
    LET r == BatchFindByRecords(f, overflow_checks, e, "name", <<n>>)
    IN [status |-> r.status, out |-> r.out]

\* C13: records with distinct primary keys upserted between tx_begin and
\* tx_commit are applied by the commit: after it each of them is what get returns for its primary key, and
\* find_by on their secondary value returns each of them
C13_CommitAppliesAll ==
    \A h \in Handles :
        (engines[h].open /\ db[h].in_tx /\ DistinctKeys(db[h].tx)) =>
            LET c == TxCommitRecords(fs, engines[h], db[h]) IN
            \A i \in 1..Len(db[h].tx) :
                    /\ GetOut(c.fs, c.engine, db[h].tx[i].id) =
                           [status |-> "ok", out |-> <<[tag |-> 0, record |-> db[h].tx[i]]>>]
                    /\ db[h].tx[i] \in
                           OutRecords(FindByNameOut(c.fs, c.engine, db[h].tx[i].name).out)

\* after a rollback no handle finds a record that the transaction deferred
\* and that no upsert outside it and no commit wrote
RolledBackNotFound ==
    \A h \in Handles :
        (engines[h].open /\ db[h].last = "rollback") =>
            \A i \in 1..Len(db[h].rolled) :
                live[db[h].rolled[i].id].record # db[h].rolled[i] =>
                    \A g \in Handles :
                        engines[g].open =>
                            /\ db[h].rolled[i] \notin
                                   OutRecords(GetOut(fs, engines[g], db[h].rolled[i].id).out)
                            /\ db[h].rolled[i] \notin
                                   OutRecords(FindByNameOut(fs, engines[g],
                                                            db[h].rolled[i].name).out)

\* an upsert inside a transaction and a rollback leave every file of the
\* directory and every memtable as they were
DeferredTouchesNothing ==
    \A h \in Handles :
        (db'[h] # db[h] /\ db'[h].last \in {"deferred", "rollback"}) =>
            (fs' = fs /\ engines' = engines)

\* C14: the records upserted between tx_begin and tx_rollback are never
\* appended and never enter a memtable: the upserts and the rollback leave the
\* segment files and the memtables unchanged, and after the rollback find
\* returns none of them
C14_RollbackDiscards == []RolledBackNotFound /\ [][DeferredTouchesNothing]_vars

\* a transaction of two records was rolled back on a directory that holds a
\* record written before it
C14_Witness ==
    /\ engines[1].open
    /\ db[1].last = "rollback"
    /\ Len(db[1].rolled) = 2
    /\ MetadataInode(fs, 1).rows # <<>>
    /\ \E i \in 1..2 : live[db[1].rolled[i].id] = NoLive

Materialize(log_key) == ReadTaggedLogKeys(fs, <<[tag |-> 0, key |-> log_key]>>)

\* C18: every LogKey a handle holds in its primary memtable under key k
\* materializes to a record with primary key k, and every LogKey it holds in
\* the secondary memtable under name n to a record with name n: the record
\* written when the LogKey was issued
C18_LogKeysMaterialize ==
    \A h \in Handles :
        engines[h].open =>
            /\ \A k \in Keys :
                   engines[h].primary_memtable[k] # NoKey =>
                       /\ Materialize(engines[h].primary_memtable[k]).status = "ok"
                       /\ \A i \in 1..Len(Materialize(engines[h].primary_memtable[k]).out) :
                              Materialize(engines[h].primary_memtable[k]).out[i].record.id = k
            /\ \A n \in Names :
                   \A log_key \in engines[h].secondary_memtables[n] :
                       /\ Materialize(log_key).status = "ok"
                       /\ \A i \in 1..Len(Materialize(log_key).out) :
                              Materialize(log_key).out[i].record.name = n

\* the bytes a metadata row names are one whole record of the data file
RowNamesRecord(row, data) ==
    /\ row.offset + row.length <= DataLen(data)
    /\ \E i \in 1..Len(data) :
           /\ DataLen(SubSeq(data, 1, i - 1)) = row.offset
           /\ SerializedLen(data[i]) = row.length

\* C17: between the operations of the writers, when a reader may hold the
\* shared lock of a segment, every metadata row of every segment names bytes
\* within the data file that the header of the segment names, and those bytes
\* are one whole serialized record
C17_RowsWithinDataFile ==
    \A segnum \in 1..Len(fs.metadata) :
        \A i \in 1..Len(MetadataInode(fs, segnum).rows) :
            RowNamesRecord(MetadataInode(fs, segnum).rows[i],
                           fs.datafiles[MetadataInode(fs, segnum).uuid])

\* C16: the size of every metadata file past its header is a multiple of the
\* row length, whatever the handles are in the middle of
C16_MetadataSizeAligned ==
    \A segnum \in 1..Len(fs.metadata) :
        (MetadataLen(MetadataInode(fs, segnum)) - METADATA_FILE_HEADER_SIZE)
            % METADATA_ROW_LENGTH = 0

\* the locks two handles hold on one file are both shared
LocksExclude ==
    \A h, g \in Handles :
        h # g => \A l \in locks[h] : \A m \in locks[g] :
                     l.on = m.on => (l.mode = "shared" /\ m.mode = "shared")

\* while a handle holds the exclusive lock of a metadata file and takes no
\* step, the file stays as it is: no other handle appends to it
OnlyHolderAppends ==
    \A h \in Handles :
        \A l \in locks[h] :
            (/\ l.on.file = "metadata"
             /\ l.mode = "exclusive"
             /\ pc'[h] = pc[h]
             /\ locks'[h] = locks[h])
            => fs'.inodes[l.on.id] = fs.inodes[l.on.id]

\* C19: at most one handle holds the exclusive lock of a metadata file, none
\* holds it shared while another holds it exclusively, and what is appended
\* to a metadata file while a handle holds its exclusive lock is appended by
\* that handle: the appends of different handles do not interleave
C19_WritersExclude == []LocksExclude /\ [][OnlyHolderAppends]_vars

\* handle w holds the exclusive lock of excl_lock_req
HoldsBarrier(w) == FileLock(ExclLockReq, "exclusive") \in locks[w]

\* the shared locks on metadata files among the locks `held`
SharedMetadataLocks(held) == {l \in held : l.on.file = "metadata" /\ l.mode = "shared"}

\* C20: while a writer holds the exclusive lock of excl_lock_req, a handle
\* that holds no shared lock of excl_lock_req acquires no shared lock of a
\* metadata file
C20_WriterPriority ==
    [][\A w, r \in Handles :
           (w # r /\ HoldsBarrier(w) /\ FileLock(ExclLockReq, "shared") \notin locks[r])
           => SharedMetadataLocks(locks'[r]) \subseteq SharedMetadataLocks(locks[r])]_vars

\* a writer holds the exclusive lock of excl_lock_req and waits for the
\* metadata file that a reader, past the barrier before it, holds shared
C20_Witness ==
    \E w, r \in Handles :
        /\ w # r
        /\ pc[w].at = "upsert_req"
        /\ HoldsBarrier(w)
        /\ pc[r].at = "read_locked"
        /\ FileLock(MetadataFile(engines[w].active_metadata_file), "shared") \in locks[r]

\* the lock the next step of handle h asks for, given where h stands inside
\* its operation; an idle handle and a handle whose next step takes no lock
\* ask for none
Awaits(h) ==
    IF pc[h].at \in {"upsert_req", "delete_req", "maintenance_req"}
    THEN {FileLock(MetadataFile(engines[h].active_metadata_file), "exclusive")}
    ELSE IF pc[h].at = "upsert_locked" /\ ~EnsureMetadataFileIsActive(fs, engines[h]).correct
    THEN {FileLock(ExclLockReq, "shared")}
    ELSE IF pc[h].at \in {"upsert_reopen", "read_req"}
    THEN {FileLock(MetadataFile(pc[h].file), "shared")}
    ELSE IF pc[h].at = "upsert_retry"
    THEN {FileLock(ExclLockReq, "exclusive")}
    ELSE {}

\* handle h asks for a lock that goes against one handle g holds
WaitsFor(h, g) ==
    /\ g # h
    /\ \E l \in Awaits(h), k \in locks[g] :
           k.on = l.on /\ ~(l.mode = "shared" /\ k.mode = "shared")

\* handles that wait for each other's locks: each of them asks for a lock
\* one of them holds, and a handle gives a lock up only by taking a step
WaitForever(S) == S # {} /\ \A h \in S : \E g \in S : WaitsFor(h, g)

\* C21: deadlock freedom.  In no reachable state do handles inside
\* batch_upsert, delete_by, find or do_maintenance wait for each other's locks
\* on excl_lock_req or a metadata file, so that none of them can ever take its
\* next step and return; three handles, two of them holding a metadata file
\* that the third rotated away.
C21_NoDeadlock == \A S \in SUBSET (DOMAIN pc) : ~WaitForever(S)

\* the LogKeys of the rows the segments of directory f hold
RowKeys(f) ==
    UNION {{LogKey(segnum, index) : index \in 0..(Len(MetadataInode(f, segnum).rows) - 1)} :
           segnum \in 1..Len(f.metadata)}

\* the LogKeys batch_upsert_records gives the records of a batch are in the
\* order of the batch: what the writer's primary memtable holds afterwards for
\* two records of different keys
AssignedInOrder ==
    \A h \in Handles : engines[h].open =>
        \A recs \in WriterBatches :
            \A i, j \in 1..Len(recs) :
                (i < j /\ recs[i].id # recs[j].id) =>
                    LogKeyLess(
                        BatchUpsertRecords(fs, engines[h], recs)
                            .engine.primary_memtable[recs[i].id],
                        BatchUpsertRecords(fs, engines[h], recs)
                            .engine.primary_memtable[recs[j].id])

\* every row a step appends has a larger LogKey than every row written before
AppendsInOrder ==
    \A new \in RowKeys(fs') \ RowKeys(fs) : \A old \in RowKeys(fs) : LogKeyLess(old, new)

\* C22: LogKey order is commit order.  A write committed before another, by
\* the same or by another handle, has the smaller LogKey: the records of one
\* upsert get LogKeys in the order they were given, and every record or
\* tombstone appended lands behind every row written before it, in a larger
\* segment after a rotation.
C22_LogKeyOrderIsCommitOrder == []AssignedInOrder /\ [][AppendsInOrder]_vars

\* what a second refresh_indexes of engine e returns, with nothing written
\* since the first returned `first`
RefreshedAgain(first) == RefreshIndexes(fs, overflow_checks, first.engine)

\* refresh_indexes called twice on handle h with no step in between: the
\* second call leaves the cursor and the memtables as the first left them, and
\* the first does not move the cursor back
RefreshIdempotent(h) ==
    LET first == RefreshIndexes(fs, overflow_checks, engines[h]) IN
    first.status # "panic" =>
        /\ RefreshedAgain(first).status = first.status
        /\ RefreshedAgain(first).engine = first.engine
        /\ ~LogKeyLess(first.engine.refresh_next_logkey, engines[h].refresh_next_logkey)

\* the cursor of a handle that stays open does not move back in a step
CursorMonotonic ==
    \A h \in Handles :
        (engines[h].open /\ engines'[h].open) =>
            ~LogKeyLess(engines'[h].refresh_next_logkey, engines[h].refresh_next_logkey)

RowRecord(f, segnum, index) ==
    ReadTaggedLogKeys(f, <<[tag |-> 0, key |-> LogKey(segnum, index)]>>)

\* the row indexes of segment segnum in directory f that resolve to a record
ValidRows(f, segnum) ==
    {index \in 0..(Len(MetadataInode(f, segnum).rows) - 1) :
         RowRecord(f, segnum, index).status = "ok"}

\* the last record written in segment segnum of directory f for the key of
\* its row `index`
LastWritten(f, segnum, index) ==
    LET same == {j \in ValidRows(f, segnum) :
                     RowRecord(f, segnum, j).out[1].record.id
                         = RowRecord(f, segnum, index).out[1].record.id}
    IN RowRecord(f, segnum, CHOOSE j \in same : \A m \in same : m <= j).out[1].record

\* the primary keys whose latest record is live, as a handle initialized on
\* directory f sees them
InitializedLive(f) ==
    {k \in Keys : OpenEngine(f, overflow_checks).engine.primary_memtable[k] # NoKey}

\* a step that rotates: segment fs.active is compacted and `active` moves on
CompactionPreserves ==
    (fs.active >= 1 /\ fs'.active = fs.active + 1) =>
        /\ \A index \in ValidRows(fs, fs.active) :
               /\ index \in ValidRows(fs', fs.active)
               /\ RowRecord(fs', fs.active, index).out[1].record
                      = LastWritten(fs, fs.active, index)
        /\ OpenEngine(fs, overflow_checks).status = "ok" =>
               /\ OpenEngine(fs', overflow_checks).status = "ok"
               /\ InitializedLive(fs') = InitializedLive(fs)

\* C24: compaction preserves content.  After rotate-and-compact of segment N
\* every row index that was valid in N is still valid and resolves to the last
\* record written in N for the primary key it had, and a handle initialized
\* afterwards sees the same set of live primary keys as one initialized before.
C24_CompactionPreservesContent == [][CompactionPreserves]_vars

\* history: the metadata file was renamed into place by a compaction
IsCompacted(inode) == "compacted" \in DOMAIN inode

\* a step that replaces metadata.<N> replaces the file segment N was created
\* with, and N is the active segment
ReplacedOnce ==
    \A segnum \in 1..Len(fs.metadata) :
        fs'.metadata[segnum] # fs.metadata[segnum] =>
            /\ segnum = fs.active
            /\ ~IsCompacted(MetadataInode(fs, segnum))

\* C25: each segment is rewritten by compaction at most once.  For every
\* segment number N, whatever the handles do, metadata.<N> is replaced by a
\* rename at most one time, and never after N has stopped being the active
\* segment.
C25_CompactedAtMostOnce == [][ReplacedOnce]_vars

\* the step in which a rotation stops between the rename and the
\* re-pointing of `active` leaves segment N compacted, `active` naming N and
\* no metadata.<N + 1>
CrashLeavesNoNextSegment ==
    ("crashed" \notin hist /\ "crashed" \in hist') =>
        /\ fs'.active = fs.active
        /\ IsCompacted(MetadataInode(fs', fs.active))
        /\ Len(fs'.metadata) = fs.active

\* after the crash an initialize succeeds and finds the latest record of
\* every key committed
RestartRecovers ==
    "crashed" \in hist =>
        /\ OpenEngine(fs, overflow_checks).status = "ok"
        /\ \A k \in Keys :
               /\ GetOut(fs, OpenEngine(fs, overflow_checks).engine, k).status = "ok"
               /\ GetOut(fs, OpenEngine(fs, overflow_checks).engine, k).out = Expected(k)

\* after the crash every segment up to the active one, those created by the
\* rotations that follow included, has exactly one header
OneHeader ==
    "crashed" \in hist =>
        \A segnum \in 1..fs.active : HeadersOf(MetadataInode(fs, segnum)) = 1

\* C26: crash during rotation.  If rotate-and-compact stops after the metadata
\* rename and before `active` is re-pointed, segment N is compacted, `active`
\* still names N and there is no metadata.<N+1>; after a restart initialize
\* succeeds, the latest record of every committed key is found, and the next
\* rotation creates segment N+1 with exactly one 24-byte header.
C26_CrashDuringRotation ==
    /\ [][CrashLeavesNoNextSegment]_vars
    /\ []RestartRecovers
    /\ []OneHeader

\* the bootstrap ran at most once, and once `active` exists it names segment
\* 1, the only segment: one data file, and metadata.1 with one whole header
\* that names it
BootstrappedOnce ==
    /\ Len(fs.datafiles) <= 1
    /\ Len(fs.metadata) <= 1
    /\ fs.active # 0 =>
           /\ fs.active = 1
           /\ Len(fs.datafiles) = 1
           /\ Len(fs.metadata) = 1
           /\ HeadersOf(MetadataInode(fs, 1)) = 1
           /\ MetadataInode(fs, 1).uuid = 1

\* the handle initialize returned holds the files of the segment `active`
\* names
HoldsActiveFiles(h) ==
    /\ engines[h].active_metadata_file = fs.metadata[fs.active]
    /\ engines[h].active_data_file = MetadataInode(fs, fs.active).uuid

\* every initialize that is past the init lock finds `active`, and returns
InitializeReturns ==
    \A h \in DOMAIN pc :
        /\ pc[h].at \in {"init_unlocked", "init_opened"} => fs.active # 0
        /\ pc[h].at = "init_opened" =>
               RefreshIndexes(fs, overflow_checks,
                   [open |-> TRUE, active_metadata_file |-> pc[h].metadata,
                    active_data_file |-> pc[h].data,
                    primary_memtable |-> EmptyPrimary,
                    secondary_memtables |-> EmptySecondary,
                    refresh_next_logkey |-> LogKey(1, 0)]).status = "ok"

\* C27: concurrent initialization.  When several handles call initialize at
\* the same time on an absent directory the bootstrap runs exactly once, one
\* segment 1 is created (one data file, metadata.1 with one 24-byte header),
\* every initialize returns a handle whose files are those of the segment
\* `active` names, and `active` never exists before metadata.1 has its whole
\* header.
C27_ConcurrentInitialization ==
    /\ BootstrappedOnce
    /\ InitializeReturns
    /\ \A h \in DOMAIN engines : engines[h].open => HoldsActiveFiles(h)

\* reached: two handles hold the files of segment 1 while a third, which
\* asked for the init lock during the bootstrap, is still inside initialize
C27_Witness ==
    /\ \E h, g \in DOMAIN engines :
           /\ h # g
           /\ engines[h].open /\ HoldsActiveFiles(h)
           /\ engines[g].open /\ HoldsActiveFiles(g)
    /\ \E h \in DOMAIN pc : pc[h].at = "init_locked"
    /\ Len(fs.datafiles) = 1

\* index < 2^48, on the limbs of a u64
Fits48(index) == index[1] = 0

\* (segment, index) of a comes before that of b
PairLess(a, b) ==
    \/ a.segment_num < b.segment_num
    \/ a.segment_num = b.segment_num /\ U64Less(a.index, b.index)

\* C28: LogKey packing.  For every segment number below 2^16 and index below
\* 2^48, LogKey::new(s, i) has segment_num() = s and index() = i, and the
\* numeric order of two LogKeys is the lexicographic order of their (segment,
\* index); an index of 2^48 or more is rejected and never reaches the segment
\* bits.
C28_LogKeyPacking ==
    /\ codec.phase \in {"packed", "unpacked", "compared"} =>
           (codec.ka.status = "ok") = Fits48(codec.a.index)
    /\ codec.phase \in {"unpacked", "compared"} =>
           /\ codec.segment_num = codec.a.segment_num
           /\ codec.index = codec.a.index
    /\ codec.phase = "compared" => (codec.less = PairLess(codec.a, codec.b))

\* reached: the largest segment number with index 1 packed, unpacked and
\* found greater than segment 1 with the largest index
C28_Witness ==
    /\ codec.phase = "compared"
    /\ codec.b.segment_num = 65535 /\ codec.b.index = <<0, 0, 0, 1>>
    /\ codec.a.segment_num = 1 /\ codec.a.index = IndexMask
    /\ codec.segment_num = 1 /\ codec.index = IndexMask
    /\ codec.less

\* C29: a LogKeySet is never empty.  After any sequence of insert and remove
\* calls the set holds at least one LogKey; remove on a set of size 1 returns
\* an error and leaves the set unchanged, and remove of a LogKey that is not in
\* the set returns an error and leaves the set unchanged.
C29_LogKeySetNeverEmpty ==
    codec.phase = "set" =>
        /\ codec.set # {}
        /\ codec.op = "remove" /\ Cardinality(codec.before) = 1 =>
               codec.status # "Ok" /\ codec.set = codec.before
        /\ codec.op = "remove" /\ codec.key \notin codec.before =>
               codec.status # "Ok" /\ codec.set = codec.before
        /\ codec.op = "remove" /\ codec.status = "Ok" =>
               codec.set = codec.before \ {codec.key}

\* reached: the only LogKey of a set was asked to be removed, and is still
\* there
C29_Witness ==
    /\ codec.phase = "set"
    /\ codec.op = "remove"
    /\ codec.before = {LogKey(2, 1)}
    /\ codec.key = LogKey(2, 1)
    /\ codec.status = "InvalidInput"
    /\ codec.set = {LogKey(2, 1)}

\* handle h holds the files of the active segment, whose metadata file has
\* one header
HoldsActiveSegment(h) ==
    /\ engines[h].open
    /\ fs.active # 0
    /\ engines[h].active_metadata_file = fs.metadata[fs.active]
    /\ engines[h].active_data_file = fs.inodes[engines[h].active_metadata_file].uuid
    /\ HeadersOf(fs.inodes[engines[h].active_metadata_file]) = 1

\* the j-th record of a batch written by handle h now (j from 1) gets the
\* row after the m rows of the segment, the bytes after the end of the data
\* file and the bytes of the records before it, and the LogKey of that row
RecordPlaced(h, recs, j) ==
    LET e == engines[h]
        m == Len(fs.inodes[e.active_metadata_file].rows)
        end == DataLen(fs.datafiles[e.active_data_file])
        r == BatchUpsertRecords(fs, e, recs)
        rows == r.fs.inodes[r.engine.active_metadata_file].rows
    IN /\ Len(rows) = m + Len(recs)
       /\ rows[m + j] = [offset |-> end + DataLen(SubSeq(recs, 1, j - 1)),
                         length |-> SerializedLen(recs[j])]
       /\ RecordAt(r.fs.datafiles[r.engine.active_data_file], rows[m + j].offset) = recs[j]
       /\ (\A i \in (j + 1)..Len(recs) : recs[i].id # recs[j].id)
              => r.engine.primary_memtable[recs[j].id] = LogKey(fs.active, m + j - 1)

\* C30: in one batch_upsert call with k >= 2 records on a segment that holds
\* m rows and whose data file ends at byte e, the j-th record (0-based) gets
\* LogKey index m + j and the metadata row with offset e + the serialized
\* lengths of the records before it and its own length, so the k records get
\* k distinct LogKeys and k disjoint byte ranges, each holding its own bytes.
C30_BatchPlacesEachRecord ==
    \A h \in Handles :
        HoldsActiveSegment(h) =>
            \A recs \in WriterBatches :
                Len(recs) >= 2 => \A j \in 1..Len(recs) : RecordPlaced(h, recs, j)

\* handle h appends the rows of its batch_upsert in this step
UpsertAppends(h) == pc[h].at = "upsert_checked" /\ pc'[h].at = "idle"

\* the metadata file handle h holds is the one `active` names
MetadataIsActive(h) == engines[h].active_metadata_file = fs.metadata[fs.active]

\* the data file handle h holds is the one the active segment's header names
DataIsActive(h) == engines[h].active_data_file = fs.inodes[fs.metadata[fs.active]].uuid

\* the LogKey handle h gives the record it appends carries the number of the
\* segment its row went to
KeyOfRowSegment(h) ==
    fs.metadata[(engines'[h].primary_memtable[LockRecord.id]).seg]
        = engines[h].active_metadata_file

\* C31: batch_upsert appends only to the active segment.  Every row written
\* by batch_upsert goes to the metadata file `active` resolves to at the
\* moment of the append, its bytes to that segment's data file, and its
\* LogKey carries that segment's number, also for a handle that found its
\* file rotated away, reopened and started again.
C31_UpsertAppendsToActive ==
    [][\A h \in Handles :
           UpsertAppends(h) =>
               MetadataIsActive(h) /\ DataIsActive(h) /\ KeyOfRowSegment(h)]_vars

\* what get(k) returns, in directory f, on a handle initialized there and on
\* the open handle g, is nothing
NotFoundAfter(f, g, k) ==
    LET fresh == OpenEngine(f, overflow_checks)
        o == BatchFindByRecords(f, overflow_checks, fresh.engine, "id", <<k>>)
        s == BatchFindByRecords(f, overflow_checks, engines[g], "id", <<k>>)
    IN /\ fresh.status = "ok" /\ o.status = "ok" /\ o.out = <<>>
       /\ engines[g].open => (s.status = "ok" /\ s.out = <<>>)

\* C32: delete_by appends its tombstones to the active segment.  In a release
\* build, once delete_by(id, k) has returned Ok on a handle, a handle
\* initialized afterwards and a Strong get on any other open handle do not
\* find key k, also when another handle rotated the segment since the
\* deleting handle last wrote.
C32_DeleteReachesActiveSegment ==
    ~overflow_checks =>
        \A h \in Handles, g \in Handles :
            (h # g /\ engines[h].open) =>
                \A k \in Keys :
                    LET d == DeleteByField(fs, overflow_checks, engines[h], "id", k)
                    IN d.status = "ok" => NotFoundAfter(d.fs, g, k)

\* the data file engine e holds is the one the header of the metadata file
\* it holds names
HeaderNamesData(f, e) == e.active_data_file = f.inodes[e.active_metadata_file].uuid

\* C33: handle consistency.  The data file an open handle holds, and the one
\* it holds when batch_upsert appends after its active check, is the data file
\* named by the header of the metadata file it holds: initially, after the
\* handle rotated, and after it found another handle's rotation and reopened.
C33_HandleConsistency ==
    \A h \in Handles :
        engines[h].open =>
            /\ HeaderNamesData(fs, engines[h])
            /\ HeaderNamesData(fs, EnsureMetadataFileIsActive(fs, engines[h]).engine)

\* the data file the header of metadata.<segnum> names
SegmentData(segnum) == fs.inodes[fs.metadata[segnum]].uuid

\* C34: every segment has its own data file.  No two metadata files
\* metadata.<A> and metadata.<B> with A # B carry the same data file UUID in
\* their headers.
C34_SegmentsOwnDataFiles ==
    \A a, b \in 1..Len(fs.metadata) : a # b => SegmentData(a) # SegmentData(b)

\* metadata.<segnum> is replaced by a rename in this step
Replaces(segnum) == fs'.metadata[segnum] # fs.metadata[segnum]

\* handle h is the one whose rotate_and_compact renames in this step
Renames(h) == pc[h].at = "maintenance_locked" /\ pc'[h].at = "maintenance_renamed"

\* the metadata rows and the data of every segment but segnum are, after this
\* step, what they were
OthersUnchanged(segnum) ==
    \A k \in 1..Len(fs.metadata) :
        k # segnum =>
            /\ fs'.inodes[fs'.metadata[k]] = fs.inodes[fs.metadata[k]]
            /\ fs'.datafiles[fs'.inodes[fs'.metadata[k]].uuid]
                   = fs.datafiles[fs.inodes[fs.metadata[k]].uuid]

\* C35: rotation touches only the segment it locked.  Whenever do_maintenance
\* replaces metadata.<K> by rename, the calling handle holds the exclusive
\* lock of the file that was at metadata.<K> before the rename, K is the
\* active segment, and the contents of every other segment are unchanged.
C35_RotationTouchesLockedSegment ==
    [][\A segnum \in 1..Len(fs.metadata) :
           Replaces(segnum) =>
               /\ segnum = fs.active
               /\ \E h \in Handles :
                      /\ Renames(h)
                      /\ FileLock(MetadataFile(fs.metadata[segnum]), "exclusive") \in locks[h]
               /\ OthersUnchanged(segnum)]_vars

\* the records the memtable of `field` of engine e resolves `value` to
Resolved(f, e, field, value) ==
    LET read == ReadTaggedLogKeys(f, Tagged(LookupLogKeys(e, field, value), 0))
    IN [status |-> read.status,
        records |-> {read.out[i].record : i \in 1..Len(read.out)}]

\* C36: incremental refresh equals full rebuild.  After refresh_indexes
\* returned Ok on an open handle, its primary memtable and each secondary
\* memtable resolve every value to the same records as those of a handle
\* initialized on the same directory at that moment.
C36_RefreshEqualsRebuild ==
    \A h \in Handles :
        LET r == RefreshIndexes(fs, overflow_checks, engines[h])
            fresh == OpenEngine(fs, overflow_checks)
        IN (engines[h].open /\ r.status = "ok") =>
               /\ fresh.status = "ok"
               /\ \A field \in Fields : \A value \in FieldValues(field) :
                      Resolved(fs, r.engine, field, value)
                          = Resolved(fs, fresh.engine, field, value)

\* the memtables and the refresh cursor of engine e are those of engine d
SameIndexes(e, d) ==
    /\ e.primary_memtable = d.primary_memtable
    /\ e.secondary_memtables = d.secondary_memtables
    /\ e.refresh_next_logkey = d.refresh_next_logkey

\* C37: a find, batch find or range query that returns ValidationError leaves
\* the handle's primary memtable, secondary memtables and refresh cursor as
\* they were before the call, with Strong as with Eventual read consistency.
C37_ValidationErrorChangesNothing ==
    \A h \in Handles :
        engines[h].open =>
            \A field \in QueryFields :
                /\ \A value \in QueryValues :
                       LET r == FindByValues(fs, overflow_checks, engines[h],
                                             ReadConsistencyOf(h), field, <<value>>)
                       IN r.status = "ValidationError" => SameIndexes(r.engine, engines[h])
                /\ \A start \in QueryBounds, end \in QueryBounds :
                       LET r == RangeByValues(fs, overflow_checks, engines[h],
                                              ReadConsistencyOf(h), field, start, end)
                       IN r.status = "ValidationError" => SameIndexes(r.engine, engines[h])

\* no record of a query result has its tombstone flag set
NoTombstones(out) == \A i \in 1..Len(out) : ~out[i].record.tombstone

\* get(k) on handle g, where between its refresh_indexes and its
\* read_tagged_log_keys handle h deletes key k and runs do_maintenance
ReadAfterDelete(g, h, k) ==
    LET r == RefreshIndexes(fs, overflow_checks, engines[g])
        d == DeleteByField(fs, overflow_checks, engines[h], "id", k)
        m == DoMaintenanceTasks(d.fs, overflow_checks, d.engine)
    IN IF r.status = "ok" /\ d.status = "ok" /\ m.status = "ok"
       THEN ReadTaggedLogKeys(m.fs, Tagged(LookupLogKeys(r.engine, "id", k), 0))
       ELSE [status |-> "err", out |-> <<>>]

\* C38: no find, batch find or range query returns a record whose tombstone
\* flag is set, also when another handle deletes the record and rotates and
\* compacts the segment between the reader's index refresh and its reading of
\* the segment files.
C38_NoTombstoneReturned ==
    \A g \in Handles :
        engines[g].open =>
            \A k \in Keys :
                /\ NoTombstones(BatchFindByRecords(fs, overflow_checks, engines[g],
                                                   "id", <<k>>).out)
                /\ \A h \in Handles \ {g} :
                       HoldsActiveSegment(h) => NoTombstones(ReadAfterDelete(g, h, k).out)

\* C39: the forward log reader yields every record of a segment in row order
\* for any sequence of metadata rows, also when a row's offset is not past
\* the data reader's position (rows that repeat an offset or whose offsets
\* decrease, as in a compacted segment): the seek distance does not overflow
\* and the record read is the one at the row's offset.
C39_ForwardReaderReadsEveryRow ==
    codec.phase = "read" =>
        /\ codec.read.status = "ok"
        /\ Len(codec.read.items) = Len(codec.rows)
        /\ \A i \in 1..Len(codec.read.items) :
               /\ codec.read.items[i].index = i - 1
               /\ codec.read.items[i].record = RecordAt(codec.data, codec.rows[i].offset)

\* the records of a query result come in ascending order of their primary key
AscendingIds(out) == \A i, j \in 1..Len(out) : i < j => out[i].id <= out[j].id

\* C40: range_by on the primary key returns its records in ascending order of
\* the primary key value, whatever the order in which the records were
\* upserted and whatever segments they are stored in.
C40_RangeByIdAscending ==
    \A h \in Handles :
        engines[h].open =>
            \A b \in RangeInputs("id") :
                LET r == RangeByRecords(fs, overflow_checks, engines[h], "id", b[1], b[2])
                IN r.status = "ok" => AscendingIds(r.out)

====
